---------------------------- MODULE Spec2Model ----------------------------
(***************************************************************************)
(* Model of the spreadsheet extraction layer (extract.py) and of the batch *)
(* drivers (extract.py, batch_classify.py).                                *)
(*                                                                         *)
(* Text is modelled by TLC strings; Len, SubSeq and \o work on them, so    *)
(* the character-level functions of the code (lower, strip, re.sub) are    *)
(* computed character by character and never taken as the identity.      *)
(***************************************************************************)
EXTENDS Integers, Sequences, FiniteSets, TLC

(***************************************************************************)
(* Bounds of the model.                                                    *)
(***************************************************************************)
MaxSheets == 2

(***************************************************************************)
(* Text helpers: Python's str.lower, and the character classes of the      *)
(* regular expressions used by the code.                                   *)
(***************************************************************************)
UpperLetters == "ABCDEFGHIJKLMNOPQRSTUVWXYZ"

LowerLetters == "abcdefghijklmnopqrstuvwxyz"

CharAt(s, i) == SubSeq(s, i, i)

LowerTable ==
    [c \in {CharAt(UpperLetters, i) : i \in 1..Len(UpperLetters)} |->
        CharAt(LowerLetters,
               CHOOSE i \in 1..Len(UpperLetters) : CharAt(UpperLetters, i) = c)]

\* Two characters outside ASCII, written here with characters no text of
\* the model uses otherwise: U+0130, the capital letter I with a dot above,
\* and U+0307, the combining dot above.  The first is a letter; the second
\* is a mark, neither a word character nor whitespace.
DottedCapitalI == "^"

CombiningDot == "~"

\* str.lower of one character: U+0130 becomes the two characters i, U+0307
LowerChar(c) ==
    IF c \in DOMAIN LowerTable THEN LowerTable[c]
    ELSE IF c = DottedCapitalI THEN "i" \o CombiningDot
    ELSE c

RECURSIVE lower(_)
lower(s) ==
    IF s = "" THEN ""
    ELSE LowerChar(CharAt(s, 1)) \o lower(SubSeq(s, 2, Len(s)))

\* the class \s of Python's re module, restricted to the characters in use
IsSpace(c) == c \in {" ", "\t", "\n"}

\* the class [\s_]
IsSpaceOrUnderscore(c) == IsSpace(c) \/ c = "_"

\* Python's `a in b` on two strings
IsSubstring(a, b) ==
    \E i \in 0..(Len(b) - Len(a)) : SubSeq(b, i + 1, i + Len(a)) = a

(***************************************************************************)
(* find_sheet_by_variations and its inner normalize.                       *)
(***************************************************************************)
RECURSIVE RemoveSpaceUnderscore(_)
RemoveSpaceUnderscore(s) ==
    IF s = "" THEN ""
    ELSE IF IsSpaceOrUnderscore(CharAt(s, 1))
         THEN RemoveSpaceUnderscore(SubSeq(s, 2, Len(s)))
         ELSE CharAt(s, 1) \o RemoveSpaceUnderscore(SubSeq(s, 2, Len(s)))

\* re.sub(r'[\s_]+', '', name.lower())
normalize(name) == RemoveSpaceUnderscore(lower(name))

\* the value returned when no sheet is found (Python's None), and a found name
NotFound == [found |-> FALSE, name |-> ""]

Found(sheet_name) == [found |-> TRUE, name |-> sheet_name]

\* for name in all_names: for sheet_name in sheetnames:
\*     if sheet_name.lower() == name.lower(): return sheet_name
RECURSIVE ExactPhase(_, _, _, _)
ExactPhase(sheetnames, all_names, i, j) ==
    IF i > Len(all_names) THEN NotFound
    ELSE IF j > Len(sheetnames) THEN ExactPhase(sheetnames, all_names, i + 1, 1)
    ELSE IF lower(sheetnames[j]) = lower(all_names[i]) THEN Found(sheetnames[j])
    ELSE ExactPhase(sheetnames, all_names, i, j + 1)

\* a variant in which the normalized phase never matches
NormalizedPhaseSkipped(sheetnames, all_names, j) == NotFound

\* for sheet_name in sheetnames:
\*     if normalize(sheet_name) in normalized_targets: return sheet_name
RECURSIVE NormalizedPhase(_, _, _)
NormalizedPhase(sheetnames, all_names, j) ==
    LET normalized_targets == {normalize(all_names[i]) : i \in 1..Len(all_names)}
    IN  IF j > Len(sheetnames) THEN NotFound
        ELSE IF normalize(sheetnames[j]) \in normalized_targets
             THEN Found(sheetnames[j])
             ELSE NormalizedPhase(sheetnames, all_names, j + 1)

\* a variant of the containment phase that only looks for the candidate in
\* the sheet name
RECURSIVE PartialPhaseOneWay(_, _, _, _)
PartialPhaseOneWay(sheetnames, all_names, i, j) ==
    IF i > Len(all_names) THEN NotFound
    ELSE IF j > Len(sheetnames) THEN PartialPhaseOneWay(sheetnames, all_names, i + 1, 1)
    ELSE IF IsSubstring(normalize(all_names[i]), normalize(sheetnames[j]))
         THEN Found(sheetnames[j])
         ELSE PartialPhaseOneWay(sheetnames, all_names, i, j + 1)

\* for name in all_names: key_word = normalize(name)
\*     for sheet_name in sheetnames:
\*         if key_word in normalize(sheet_name) or normalize(sheet_name) in key_word:
\*             return sheet_name
RECURSIVE PartialPhase(_, _, _, _)
PartialPhase(sheetnames, all_names, i, j) ==
    IF i > Len(all_names) THEN NotFound
    ELSE IF j > Len(sheetnames) THEN PartialPhase(sheetnames, all_names, i + 1, 1)
    ELSE IF \/ IsSubstring(normalize(all_names[i]), normalize(sheetnames[j]))
            \/ IsSubstring(normalize(sheetnames[j]), normalize(all_names[i]))
         THEN Found(sheetnames[j])
         ELSE PartialPhase(sheetnames, all_names, i, j + 1)

\* the three phases over one candidate list
ThreePhases(sheetnames, all_names) ==
    LET exact == ExactPhase(sheetnames, all_names, 1, 1)
        norm  == NormalizedPhase(sheetnames, all_names, 1)
    IN  IF exact.found THEN exact
        ELSE IF norm.found THEN norm
        ELSE PartialPhase(sheetnames, all_names, 1, 1)

\* a variant giving the fallback names a separate, later pass
find_sheet_fallback_pass(sheetnames, primary_names, fallback_names) ==
    LET first == ThreePhases(sheetnames, primary_names)
    IN  IF first.found THEN first ELSE ThreePhases(sheetnames, fallback_names)

\* a variant returning the candidate's spelling instead of the sheet's
find_sheet_candidate_spelling(sheetnames, primary_names, fallback_names) ==
    LET all_names == primary_names \o fallback_names
        r == ThreePhases(sheetnames, all_names)
    IN  IF r.found /\ \E i \in 1..Len(all_names) : lower(all_names[i]) = lower(r.name)
        THEN Found(all_names[CHOOSE i \in 1..Len(all_names) :
                                 lower(all_names[i]) = lower(r.name)])
        ELSE r

find_sheet_by_variations(sheetnames, primary_names, fallback_names) ==
    LET all_names == primary_names \o fallback_names
    IN  ThreePhases(sheetnames, all_names)

(***************************************************************************)
(* The four roles resolved by extract_setup_data_to_json and their         *)
(* candidate names.                                                        *)
(***************************************************************************)
Roles == {"setup", "cos", "info", "financials"}

PrimaryNames(role) ==
    CASE role = "setup"      -> <<"i_Setup", "i Setup", "Setup", "i-Setup">>
      [] role = "cos"        -> <<"i_COS", "i COS", "COS", "i-COS", "Cost of Sales">>
      [] role = "info"       -> <<"info", "Info", "Information">>
      [] role = "financials" -> <<"financials", "Financials", "Financial",
                                  "Financial Statements", "FS">>

FallbackNames(role) ==
    CASE role = "setup" -> <<"summary", "Summary", "Summary Sheet">>
      [] OTHER          -> <<>>

ResolveRole(sheetnames, role) ==
    find_sheet_by_variations(sheetnames, PrimaryNames(role), FallbackNames(role))

(***************************************************************************)
(* Cell values.  A cell holds nothing (None), text, a number, a boolean or *)
(* a date; s is the text str(value) gives.                                 *)
(***************************************************************************)
NoValue == [t |-> "none", s |-> "None"]

Text(x) == [t |-> "str", s |-> x]

Number(x) == [t |-> "num", s |-> x]

Boolean(x) == [t |-> "bool", s |-> x]

Date(x) == [t |-> "date", s |-> x]

\* Python's truth value of a cell value
Truthy(v) ==
    CASE v.t = "none" -> FALSE
      [] v.t = "str"  -> v.s # ""
      [] v.t = "num"  -> v.s \notin {"0", "0.0"}
      [] v.t = "bool" -> v.s = "True"
      [] v.t = "date" -> TRUE

\* isinstance(value, str)
IsStr(v) == v.t = "str"

\* isinstance(value, (int, float)); bool is a subclass of int
IsNumber(v) == v.t \in {"num", "bool"}

\* str(value)
PyStr(v) == v.s

RECURSIVE lstrip(_)
lstrip(s) ==
    IF s # "" /\ IsSpace(CharAt(s, 1)) THEN lstrip(SubSeq(s, 2, Len(s))) ELSE s

RECURSIVE rstrip(_)
rstrip(s) ==
    IF s # "" /\ IsSpace(CharAt(s, Len(s)))
    THEN rstrip(SubSeq(s, 1, Len(s) - 1)) ELSE s

\* str.strip()
strip(s) == rstrip(lstrip(s))

\* str.startswith
startswith(s, prefix) ==
    Len(s) >= Len(prefix) /\ SubSeq(s, 1, Len(prefix)) = prefix

(***************************************************************************)
(* Worksheets: max_row and the cells that hold a value; every other cell   *)
(* reads as None.                                                          *)
(***************************************************************************)
CellValue(worksheet, row, column) ==
    IF <<row, column>> \in DOMAIN worksheet.cells
    THEN worksheet.cells[<<row, column>>]
    ELSE NoValue

\* the sheet whose rows 1..Len(rows) hold rows[r][k] in column columns[k]
SheetOfRows(rows, columns) ==
    [max_row |-> IF Len(rows) = 0 THEN 1 ELSE Len(rows),
     cells   |-> [p \in {<<r, columns[k]>> : r \in 1..Len(rows), k \in 1..Len(columns)} |->
                     rows[p[1]][CHOOSE k \in 1..Len(columns) : columns[k] = p[2]]]]

\* the sequences over S of length at most n
RECURSIVE SeqsUpTo(_, _)
SeqsUpTo(S, n) ==
    IF n = 0 THEN {<<>>}
    ELSE LET shorter == SeqsUpTo(S, n - 1)
         IN  shorter \cup {Append(q, x) : <<q, x>> \in
                             {<<q, x>> \in shorter \X S : Len(q) = n - 1}}

(***************************************************************************)
(* extract_i_cos_data                                                      *)
(***************************************************************************)
ColH == 8

ColI == 9

\* lines 311-322: the test a row passes to contribute a product
CosRowAccepted(worksheet, row_num) ==
    LET name_value == CellValue(worksheet, row_num, ColH)
        cat_value  == CellValue(worksheet, row_num, ColI)
        product_name == strip(PyStr(name_value))
        cos_category == strip(PyStr(cat_value))
    IN  /\ Truthy(name_value)
        /\ Truthy(cat_value)
        /\ IsStr(name_value)
        /\ IsStr(cat_value)
        /\ product_name # "" /\ cos_category # ""
        /\ product_name \notin {"Product Name", ""}
        /\ cos_category \notin {"Cost of Sales Category", ""}

CosEntry(worksheet, row_num) ==
    [productName         |-> strip(PyStr(CellValue(worksheet, row_num, ColH))),
     costOfSalesCategory |-> strip(PyStr(CellValue(worksheet, row_num, ColI)))]

\* the first loop: cos_data, one entry per accepted row, in row order
RECURSIVE CosScan(_, _)
CosScan(worksheet, row_num) ==
    IF row_num > worksheet.max_row THEN <<>>
    ELSE (IF CosRowAccepted(worksheet, row_num)
          THEN <<CosEntry(worksheet, row_num)>> ELSE <<>>)
         \o CosScan(worksheet, row_num + 1)

\* the second loop: keep the first occurrence of each identifier
RECURSIVE CosUnique(_, _, _, _)
CosUnique(cos_data, k, seen, unique_cos_data) ==
    IF k > Len(cos_data) THEN unique_cos_data
    ELSE LET identifier == <<cos_data[k].productName,
                             cos_data[k].costOfSalesCategory>>
         IN  IF identifier \notin seen
             THEN CosUnique(cos_data, k + 1, seen \cup {identifier},
                            Append(unique_cos_data, cos_data[k]))
             ELSE CosUnique(cos_data, k + 1, seen, unique_cos_data)

\* a variant without the second loop
extract_i_cos_data_no_dedup(worksheet) == CosScan(worksheet, 1)

\* a variant that stringifies non-text cells instead of skipping the row
extract_i_cos_data_any_type(worksheet) ==
    LET RECURSIVE scan(_)
        scan(r) ==
            IF r > worksheet.max_row THEN <<>>
            ELSE (IF /\ Truthy(CellValue(worksheet, r, ColH))
                     /\ Truthy(CellValue(worksheet, r, ColI))
                     /\ CosEntry(worksheet, r).productName \notin {"Product Name", ""}
                     /\ CosEntry(worksheet, r).costOfSalesCategory
                            \notin {"Cost of Sales Category", ""}
                  THEN <<CosEntry(worksheet, r)>> ELSE <<>>) \o scan(r + 1)
    IN  CosUnique(scan(1), 1, {}, <<>>)

extract_i_cos_data(worksheet) == CosUnique(CosScan(worksheet, 1), 1, {}, <<>>)

(***************************************************************************)
(* extract_info_data and its inner normalize_key                           *)
(***************************************************************************)
Digits == "0123456789"

\* the class \w: letters, digits and the underscore
IsWordChar(c) ==
    \/ \E i \in 1..Len(UpperLetters) : c = CharAt(UpperLetters, i) \/ c = CharAt(LowerLetters, i)
    \/ \E i \in 1..Len(Digits) : c = CharAt(Digits, i)
    \/ c = "_"
    \/ c = DottedCapitalI

\* re.sub(r'[^\w\s]', '', s)
RECURSIVE RemoveSpecial(_)
RemoveSpecial(s) ==
    IF s = "" THEN ""
    ELSE IF IsWordChar(CharAt(s, 1)) \/ IsSpace(CharAt(s, 1))
         THEN CharAt(s, 1) \o RemoveSpecial(SubSeq(s, 2, Len(s)))
         ELSE RemoveSpecial(SubSeq(s, 2, Len(s)))

\* re.sub(r'[\s_]+', '_', s): every run becomes one underscore
RECURSIVE CollapseRuns(_)
CollapseRuns(s) ==
    IF s = "" THEN ""
    ELSE IF IsSpaceOrUnderscore(CharAt(s, 1))
         THEN IF Len(s) > 1 /\ IsSpaceOrUnderscore(CharAt(s, 2))
              THEN CollapseRuns(SubSeq(s, 2, Len(s)))
              ELSE "_" \o CollapseRuns(SubSeq(s, 2, Len(s)))
         ELSE CharAt(s, 1) \o CollapseRuns(SubSeq(s, 2, Len(s)))

\* str.strip('_')
RECURSIVE StripUnderscores(_)
StripUnderscores(s) ==
    IF s # "" /\ CharAt(s, 1) = "_" THEN StripUnderscores(SubSeq(s, 2, Len(s)))
    ELSE IF s # "" /\ CharAt(s, Len(s)) = "_"
         THEN StripUnderscores(SubSeq(s, 1, Len(s) - 1))
         ELSE s

\* a variant that leaves leading and trailing underscores in place
normalize_key_keep_underscores(label) == lower(CollapseRuns(RemoveSpecial(label)))

normalize_key(label) == StripUnderscores(lower(CollapseRuns(RemoveSpecial(label))))

ColA == 1

ColB == 2

\* a variant that takes comment rows for data
InfoLabelWantedWithComments(label) ==
    /\ label # ""
    /\ lower(label) \notin {"", "label", "metric", "name", "description", "info"}

\* lines 370-373: the labels that are not headers, comments or empty
InfoLabelWanted(label) ==
    /\ label # ""
    /\ lower(label) \notin {"", "label", "metric", "name", "description", "info"}
    /\ ~startswith(label, "#")

\* a dictionary value that is itself a dictionary
Dict(d) == [t |-> "dict", s |-> "", d |-> d]

\* d[key] = value on a dictionary modelled as a function
DictSet(d, key, value) == [k \in DOMAIN d \cup {key} |-> IF k = key THEN value ELSE d[k]]

\* the loop of lines 362-386: acc = [info_data, label_mapping]
RECURSIVE InfoScan(_, _, _)
InfoScan(worksheet, row_num, acc) ==
    IF row_num > worksheet.max_row THEN acc
    ELSE LET label_value == CellValue(worksheet, row_num, ColA)
             value == CellValue(worksheet, row_num, ColB)
             label == strip(PyStr(label_value))
             key   == normalize_key(label)
         IN  IF /\ label_value # NoValue
                /\ InfoLabelWanted(label)
                /\ value # NoValue
                /\ key # ""
             THEN InfoScan(worksheet, row_num + 1,
                           [info_data     |-> DictSet(acc.info_data, key, value),
                            label_mapping |-> DictSet(acc.label_mapping, key, label)])
             ELSE InfoScan(worksheet, row_num + 1, acc)

extract_info_data(worksheet) ==
    LET acc == InfoScan(worksheet, 1, [info_data |-> <<>>, label_mapping |-> <<>>])
    IN  IF DOMAIN acc.label_mapping # {}
        THEN DictSet(acc.info_data, "_labels", Dict(acc.label_mapping))
        ELSE acc.info_data

(***************************************************************************)
(* extract_i_setup_data and extract_industry_details_subtable              *)
(***************************************************************************)
ColG == 7

ColM == 13

ColO == 15

ColP == 16

ColQ == 17

ColR == 18

ColS == 19

DigitValue(c) == (CHOOSE i \in 1..Len(Digits) : CharAt(Digits, i) = c) - 1

IsDigit(c) == \E i \in 1..Len(Digits) : CharAt(Digits, i) = c

\* the value of the leading digits of s, continuing from acc
RECURSIVE LeadingDigits(_, _)
LeadingDigits(s, acc) ==
    IF s = "" \/ ~IsDigit(CharAt(s, 1)) THEN acc
    ELSE LeadingDigits(SubSeq(s, 2, Len(s)), 10 * acc + DigitValue(CharAt(s, 1)))

\* int(value) of a number cell: the integer part, truncated toward zero
IntOf(v) ==
    IF v.t = "bool" THEN (IF v.s = "True" THEN 1 ELSE 0)
    ELSE IF startswith(v.s, "-") THEN 0 - LeadingDigits(SubSeq(v.s, 2, Len(v.s)), 0)
    ELSE LeadingDigits(v.s, 0)

\* str(cell.value).strip() if cell.value else ""
StrippedOrEmpty(v) == IF Truthy(v) THEN strip(PyStr(v)) ELSE ""

\* lines 177-180: the rows that define a field
IsFieldRow(worksheet, row_num) ==
    LET number_value == CellValue(worksheet, row_num, ColG)
        name_value   == CellValue(worksheet, row_num, ColH)
    IN  /\ number_value # NoValue
        /\ IsNumber(number_value)
        /\ name_value # NoValue
        /\ IsStr(name_value)

\* lines 182-196: the record stored for a field row
FieldRecord(worksheet, row_num) ==
    LET field_value_cell == CellValue(worksheet, row_num, ColM)
    IN  [fieldNumber  |-> IntOf(CellValue(worksheet, row_num, ColG)),
         fieldType    |-> StrippedOrEmpty(CellValue(worksheet, row_num, ColI)),
         value        |-> IF field_value_cell = NoValue THEN "" ELSE PyStr(field_value_cell),
         hasSubTable  |-> FALSE,
         subTableData |-> <<>>]

\* the first loop, lines 171-196
RECURSIVE FieldScan(_, _, _)
FieldScan(worksheet, row_num, setup_data) ==
    IF row_num > worksheet.max_row THEN setup_data
    ELSE IF IsFieldRow(worksheet, row_num)
         THEN FieldScan(worksheet, row_num + 1,
                        DictSet(setup_data,
                                strip(PyStr(CellValue(worksheet, row_num, ColH))),
                                FieldRecord(worksheet, row_num)))
         ELSE FieldScan(worksheet, row_num + 1, setup_data)

IndustryFirstRow == 19

IndustryLastRow == 26

IndustryLabels ==
    {"Industry Type", "Primary Industry", "Secondary Industry",
     "Benchmarking Business Sector"}

RECURSIVE IndustryScan(_, _)
IndustryScan(worksheet, row_num) ==
    IF row_num > IndustryLastRow THEN <<>>
    ELSE LET field_label == CellValue(worksheet, row_num, ColH)
         IN  (IF /\ Truthy(field_label)
                 /\ IsStr(field_label)
                 /\ PyStr(field_label) \in IndustryLabels
              THEN <<[fieldLabel |-> strip(PyStr(field_label)),
                      fieldType  |-> StrippedOrEmpty(CellValue(worksheet, row_num, ColI)),
                      value      |-> StrippedOrEmpty(CellValue(worksheet, row_num, ColM))]>>
              ELSE <<>>)
             \o IndustryScan(worksheet, row_num + 1)

\* a variant that scans from the first row of the sheet
extract_industry_details_from_top(worksheet) == IndustryScan(worksheet, 1)

extract_industry_details_subtable(worksheet) == IndustryScan(worksheet, IndustryFirstRow)

\* lines 206-217
field_sections ==
    << [name |-> "Revenue Streams",        start_row |-> 44,  end_row |-> 58],
       [name |-> "Cost of Sales",          start_row |-> 59,  end_row |-> 77],
       [name |-> "Operating Costs",        start_row |-> 78,  end_row |-> 96],
       [name |-> "Financing Costs",        start_row |-> 97,  end_row |-> 105],
       [name |-> "Capital Investment",     start_row |-> 106, end_row |-> 116],
       [name |-> "Borrowing Details",      start_row |-> 117, end_row |-> 129],
       [name |-> "Credit Scoring Details", start_row |-> 130, end_row |-> 136],
       [name |-> "Cash Flow Details",      start_row |-> 137, end_row |-> 146],
       [name |-> "Collateral & Other",     start_row |-> 147, end_row |-> 158],
       [name |-> "Recommendations",        start_row |-> 159, end_row |-> 170] >>

Min(a, b) == IF a < b THEN a ELSE b

\* a variant of the item without its industry
SubItemWithoutIndustry(worksheet, row_num) ==
    [itemName |-> StrippedOrEmpty(CellValue(worksheet, row_num, ColH)),
     itemType |-> StrippedOrEmpty(CellValue(worksheet, row_num, ColI)),
     name     |-> StrippedOrEmpty(CellValue(worksheet, row_num, ColM)),
     type     |-> StrippedOrEmpty(CellValue(worksheet, row_num, ColO)),
     sub1     |-> StrippedOrEmpty(CellValue(worksheet, row_num, ColQ)),
     sub2     |-> StrippedOrEmpty(CellValue(worksheet, row_num, ColR)),
     sub3     |-> StrippedOrEmpty(CellValue(worksheet, row_num, ColS))]

\* lines 253-262
SubItem(worksheet, row_num) ==
    [itemName |-> StrippedOrEmpty(CellValue(worksheet, row_num, ColH)),
     itemType |-> StrippedOrEmpty(CellValue(worksheet, row_num, ColI)),
     name     |-> StrippedOrEmpty(CellValue(worksheet, row_num, ColM)),
     type     |-> StrippedOrEmpty(CellValue(worksheet, row_num, ColO)),
     industry |-> StrippedOrEmpty(CellValue(worksheet, row_num, ColP)),
     sub1     |-> StrippedOrEmpty(CellValue(worksheet, row_num, ColQ)),
     sub2     |-> StrippedOrEmpty(CellValue(worksheet, row_num, ColR)),
     sub3     |-> StrippedOrEmpty(CellValue(worksheet, row_num, ColS))]

\* lines 249-251 and 265: the row is a sub-table item with meaningful data
IsSubItemRow(worksheet, row_num) ==
    LET item_name == CellValue(worksheet, row_num, ColH)
        sub_item  == SubItem(worksheet, row_num)
    IN  /\ Truthy(item_name)
        /\ IsStr(item_name)
        /\ (IsSubstring("Category", PyStr(item_name)) \/ IsSubstring("Steam", PyStr(item_name)))
        /\ (sub_item.name # "" \/ sub_item.type # "" \/ sub_item.sub1 # ""
              \/ sub_item.sub2 # "" \/ sub_item.sub3 # "")

\* a variant of the scan that takes items before the header row too
RECURSIVE SectionScanAnyRow(_, _, _, _)
SectionScanAnyRow(worksheet, row_num, last_row, header_found) ==
    IF row_num > last_row THEN <<>>
    ELSE IF /\ CellValue(worksheet, row_num, ColM) = Text("Name")
            /\ CellValue(worksheet, row_num, ColO) = Text("Type")
         THEN SectionScanAnyRow(worksheet, row_num + 1, last_row, TRUE)
         ELSE (IF IsSubItemRow(worksheet, row_num)
               THEN <<SubItem(worksheet, row_num)>> ELSE <<>>)
              \o SectionScanAnyRow(worksheet, row_num + 1, last_row, header_found)

\* lines 228-266: the scan of one section's rows, to last_row inclusive
RECURSIVE SectionScan(_, _, _, _)
SectionScan(worksheet, row_num, last_row, header_found) ==
    IF row_num > last_row THEN <<>>
    ELSE IF /\ CellValue(worksheet, row_num, ColM) = Text("Name")
            /\ CellValue(worksheet, row_num, ColO) = Text("Type")
         THEN SectionScan(worksheet, row_num + 1, last_row, TRUE)
         ELSE (IF header_found /\ IsSubItemRow(worksheet, row_num)
               THEN <<SubItem(worksheet, row_num)>> ELSE <<>>)
              \o SectionScan(worksheet, row_num + 1, last_row, header_found)

\* a variant that marks the field whatever the list holds
WithSubTableAlways(setup_data, field_name, sub_table_data) ==
    [setup_data EXCEPT ![field_name].hasSubTable = TRUE,
                       ![field_name].subTableData = sub_table_data]

\* lines 201-203 and 269-271
WithSubTable(setup_data, field_name, sub_table_data) ==
    IF sub_table_data # <<>>
    THEN [setup_data EXCEPT ![field_name].hasSubTable = TRUE,
                            ![field_name].subTableData = sub_table_data]
    ELSE setup_data

\* lines 219-271: the sections, in list order
RECURSIVE SectionsPass(_, _, _)
SectionsPass(worksheet, k, setup_data) ==
    IF k > Len(field_sections) THEN setup_data
    ELSE LET section == field_sections[k]
         IN  IF section.name \in DOMAIN setup_data
             THEN SectionsPass(worksheet, k + 1,
                      WithSubTable(setup_data, section.name,
                          SectionScan(worksheet, section.start_row,
                                      Min(section.end_row, worksheet.max_row), FALSE)))
             ELSE SectionsPass(worksheet, k + 1, setup_data)

extract_i_setup_data(worksheet) ==
    LET fields == FieldScan(worksheet, 1, <<>>)
        with_industry ==
            IF "Industry Details" \in DOMAIN fields
            THEN WithSubTable(fields, "Industry Details",
                              extract_industry_details_subtable(worksheet))
            ELSE fields
    IN  SectionsPass(worksheet, 1, with_industry)

(***************************************************************************)
(* extract_financials_data and its inner normalize_category                *)
(***************************************************************************)
EXPECTED_CATEGORIES == {"revenue", "cost_of_sale", "opex", "financing_cost", "capex"}

\* lines 425-474, grouped by the key each text maps to
category_mapping ==
    [k \in {"revenue", "revenues", "income", "sales"} |-> "revenue"]
    @@ [k \in {"cost_of_sale", "cost_of_sales", "cogs", "cost_of_goods_sold",
               "cost_of_goods", "direct_cost", "direct_costs", "cost_of_revenue"}
           |-> "cost_of_sale"]
    @@ [k \in {"opex", "operating_expenses", "operating_expense", "operating_costs",
               "operating_cost", "operating_expenditure", "operating_expenditures",
               "expenses", "expenditure", "expenditures"} |-> "opex"]
    @@ [k \in {"financing_cost", "financing_costs", "finance_cost", "finance_costs",
               "interest_expense", "interest_expenses", "interest_cost",
               "interest_costs", "financial_cost", "financial_costs"}
           |-> "financing_cost"]
    @@ [k \in {"capex", "capital_expenditure", "capital_expenditures",
               "capital_investment", "capital_investments", "capital_expense",
               "capital_expenses"} |-> "capex"]

\* any(term in normalized for term in terms)
AnyTermIn(terms, normalized) == \E term \in terms : IsSubstring(term, normalized)

\* the value normalize_category returns for no category (Python's None)
NoCategory == "<None>"

\* a variant of the heuristics that asks for the opex indicators first
PartialCategoryOpexFirst(normalized) ==
    IF AnyTermIn({"opex", "operating_expense", "operating_cost",
                  "operating_expenditure"}, normalized) THEN "opex"
    ELSE IF AnyTermIn({"cost_of_sale", "cost_of_sales", "cogs", "cost_of_goods",
                       "direct_cost"}, normalized) THEN "cost_of_sale"
    ELSE IF AnyTermIn({"revenue", "income", "sales"}, normalized) THEN "revenue"
    ELSE IF AnyTermIn({"financing", "finance", "interest"}, normalized)
         THEN "financing_cost"
    ELSE IF AnyTermIn({"capex", "capital_expenditure", "capital_investment",
                       "capital_expense"}, normalized) THEN "capex"
    ELSE NoCategory

\* lines 480-502: the substring heuristics, in the order of the code
PartialCategory(normalized) ==
    IF AnyTermIn({"cost_of_sale", "cost_of_sales", "cogs", "cost_of_goods",
                  "direct_cost"}, normalized) THEN "cost_of_sale"
    ELSE IF AnyTermIn({"opex", "operating_expense", "operating_cost",
                       "operating_expenditure"}, normalized) THEN "opex"
    ELSE IF AnyTermIn({"revenue", "income", "sales"}, normalized) THEN "revenue"
    ELSE IF AnyTermIn({"financing", "finance", "interest"}, normalized)
         THEN "financing_cost"
    ELSE IF AnyTermIn({"capex", "capital_expenditure", "capital_investment",
                       "capital_expense"}, normalized) THEN "capex"
    ELSE NoCategory

normalize_category(category) ==
    IF category = "" THEN NoCategory
    ELSE LET normalized == StripUnderscores(lower(CollapseRuns(RemoveSpecial(strip(category)))))
         IN  IF normalized \in DOMAIN category_mapping
             THEN category_mapping[normalized]
             ELSE PartialCategory(normalized)

ColE == 5

ColF == 6

\* str.replace(old, '') for a one-character old
RECURSIVE RemoveChar(_, _)
RemoveChar(s, old) ==
    IF s = "" THEN ""
    ELSE IF CharAt(s, 1) = old THEN RemoveChar(SubSeq(s, 2, Len(s)), old)
         ELSE CharAt(s, 1) \o RemoveChar(SubSeq(s, 2, Len(s)), old)

\* str.isdigit()
isdigit(s) == s # "" /\ \A i \in 1..Len(s) : IsDigit(CharAt(s, i))

\* value.replace(',', '').replace('.', '').replace('-', '').strip().isdigit()
LooksLikeNumber(value) ==
    isdigit(strip(RemoveChar(RemoveChar(RemoveChar(value, ","), "."), "-")))

\* lines 518-522: the category column A gives, NoCategory if none
CategoryFromA(worksheet, row_num) ==
    LET sub1_cell == CellValue(worksheet, row_num, ColA)
        sub1_value == strip(PyStr(sub1_cell))
    IN  IF /\ Truthy(sub1_cell)
           /\ lower(sub1_value) \notin {"", "sub1", "line item", "account",
                                        "description", "name"}
        THEN normalize_category(sub1_value)
        ELSE NoCategory

\* lines 526-531: the category column E gives, NoCategory if none
CategoryFromE(worksheet, row_num) ==
    LET category_cell_e == CellValue(worksheet, row_num, ColE)
        category_raw == strip(PyStr(category_cell_e))
    IN  IF /\ Truthy(category_cell_e)
           /\ lower(category_raw) \notin {"", "sub1", "category", "type",
                                          "comments", "sub3"}
        THEN normalize_category(category_raw)
        ELSE NoCategory

\* a variant that asks column E first
RowCategoryGenericFirst(worksheet, row_num) ==
    LET category_from_e == CategoryFromE(worksheet, row_num)
    IN  IF category_from_e \in EXPECTED_CATEGORIES THEN category_from_e
        ELSE LET category_from_a == CategoryFromA(worksheet, row_num)
             IN  IF category_from_a \in EXPECTED_CATEGORIES THEN category_from_a
                 ELSE NoCategory

\* lines 511-542: the category of a row
RowCategory(worksheet, row_num) ==
    LET category_from_a == CategoryFromA(worksheet, row_num)
    IN  IF category_from_a \in EXPECTED_CATEGORIES THEN category_from_a
        ELSE LET category_from_e == CategoryFromE(worksheet, row_num)
             IN  IF category_from_e \in EXPECTED_CATEGORIES THEN category_from_e
                 ELSE NoCategory

\* a variant that keeps the texts that look like numbers
SubTextWithNumbers(worksheet, row_num, column) ==
    LET cell == CellValue(worksheet, row_num, column)
        value == strip(PyStr(cell))
    IN  IF /\ Truthy(cell)
           /\ lower(value) \notin {"", "sub3", "comments", "type", "category",
                                   "subcategory"}
        THEN value
        ELSE ""

\* lines 545-552 and 555-562: the usable text of column F or G, "" if none
SubText(worksheet, row_num, column) ==
    LET cell == CellValue(worksheet, row_num, column)
        value == strip(PyStr(cell))
    IN  IF /\ Truthy(cell)
           /\ lower(value) \notin {"", "sub3", "comments", "type", "category",
                                   "subcategory"}
           /\ ~LooksLikeNumber(value)
        THEN value
        ELSE ""

InSeq(x, q) == \E i \in 1..Len(q) : q[i] = x

\* a variant that appends the sub-subcategory without looking for it
AddLineItemNoLookup(line_items, category, subcategory, sub_subcategory) ==
    LET with_category ==
            IF category \in DOMAIN line_items THEN line_items
            ELSE DictSet(line_items, category, <<>>)
        subs == with_category[category]
        key  == IF subcategory # "" THEN subcategory ELSE "_other"
        leaves == IF key \in DOMAIN subs THEN subs[key] ELSE <<>>
        new_leaves ==
            IF sub_subcategory # "" THEN Append(leaves, sub_subcategory) ELSE leaves
    IN  DictSet(with_category, category, DictSet(subs, key, new_leaves))

\* lines 568-585: the hierarchy after a row with the given texts
AddLineItem(line_items, category, subcategory, sub_subcategory) ==
    LET with_category ==
            IF category \in DOMAIN line_items THEN line_items
            ELSE DictSet(line_items, category, <<>>)
        subs == with_category[category]
        key  == IF subcategory # "" THEN subcategory ELSE "_other"
        leaves == IF key \in DOMAIN subs THEN subs[key] ELSE <<>>
        new_leaves ==
            IF sub_subcategory # "" /\ ~InSeq(sub_subcategory, leaves)
            THEN Append(leaves, sub_subcategory)
            ELSE leaves
    IN  DictSet(with_category, category, DictSet(subs, key, new_leaves))

\* a variant of the loop that files a row without a category under the
\* text it got for one
RECURSIVE FinancialsScanKeepAll(_, _, _)
FinancialsScanKeepAll(worksheet, row_num, line_items) ==
    IF row_num > worksheet.max_row THEN line_items
    ELSE LET category == RowCategory(worksheet, row_num)
             subcategory == SubText(worksheet, row_num, ColF)
             sub_subcategory == SubText(worksheet, row_num, ColG)
         IN  IF subcategory = "" /\ sub_subcategory = ""
             THEN FinancialsScanKeepAll(worksheet, row_num + 1, line_items)
             ELSE FinancialsScanKeepAll(worksheet, row_num + 1,
                      AddLineItem(line_items, category, subcategory, sub_subcategory))

\* the loop of lines 508-585
RECURSIVE FinancialsScan(_, _, _)
FinancialsScan(worksheet, row_num, line_items) ==
    IF row_num > worksheet.max_row THEN line_items
    ELSE LET category == RowCategory(worksheet, row_num)
             subcategory == SubText(worksheet, row_num, ColF)
             sub_subcategory == SubText(worksheet, row_num, ColG)
         IN  IF category = NoCategory \/ (subcategory = "" /\ sub_subcategory = "")
             THEN FinancialsScan(worksheet, row_num + 1, line_items)
             ELSE FinancialsScan(worksheet, row_num + 1,
                      AddLineItem(line_items, category, subcategory, sub_subcategory))

extract_financials_data(worksheet) == FinancialsScan(worksheet, 1, <<>>)

(***************************************************************************)
(* extract_setup_data_to_json: paths, messages, the document, the file.    *)
(***************************************************************************)
\* the largest i with CharAt(s, i) = c, or 0
LastIndexOf(s, c) ==
    IF \E i \in 1..Len(s) : CharAt(s, i) = c
    THEN CHOOSE i \in 1..Len(s) :
            CharAt(s, i) = c /\ \A k \in (i + 1)..Len(s) : CharAt(s, k) # c
    ELSE 0

\* os.path.basename
basename(path) == SubSeq(path, LastIndexOf(path, "/") + 1, Len(path))

\* os.path.splitext(path)[0]
splitext_root(path) ==
    LET dot == LastIndexOf(path, ".")
        sep == LastIndexOf(path, "/")
    IN  IF dot > sep + 1 THEN SubSeq(path, 1, dot - 1) ELSE path

\* lines 140-142, output_json_path being None
OutputJsonPath(excel_file_path) == splitext_root(excel_file_path) \o ".json"

\* ', '.join(names)
RECURSIVE JoinComma(_)
JoinComma(names) ==
    IF Len(names) = 0 THEN ""
    ELSE IF Len(names) = 1 THEN names[1]
    ELSE names[1] \o ", " \o JoinComma(Tail(names))

\* a variant that leaves the sheet names out of the message
MissingSheetMessageNoNames(role, names) ==
    "Error occurred: Sheet for " \o role \o " not found in the workbook."

\* lines 75-76, 87-88 and 163: the line printed for a missing required sheet
MissingSheetMessage(role, names) ==
    "Error occurred: "
    \o (IF role = "setup"
        THEN "Sheet 'i_Setup' (or variations) or 'summary' not found in the workbook."
        ELSE "Sheet 'i_COS' (or variations) not found in the workbook.")
    \o " Available sheets: " \o JoinComma(names)

RECURSIVE SumLengths(_, _)
SumLengths(setup_data, names) ==
    IF names = {} THEN 0
    ELSE LET n == CHOOSE x \in names : TRUE
         IN  Len(setup_data[n].subTableData) + SumLengths(setup_data, names \ {n})

\* a variant whose item count is the count of the fields with a sub-table
SetupPartCountingMarked(setup_data) ==
    [totalFields         |-> Cardinality(DOMAIN setup_data),
     fieldsWithSubTables |-> Cardinality({n \in DOMAIN setup_data : setup_data[n].hasSubTable}),
     totalSubTableItems  |-> Cardinality({n \in DOMAIN setup_data : setup_data[n].hasSubTable}),
     fields              |-> setup_data]

\* lines 125-130
SetupPart(setup_data) ==
    [totalFields         |-> Cardinality(DOMAIN setup_data),
     fieldsWithSubTables |-> Cardinality({n \in DOMAIN setup_data : setup_data[n].hasSubTable}),
     totalSubTableItems  |-> SumLengths(setup_data, DOMAIN setup_data),
     fields              |-> setup_data]

\* lines 131-134
CosPart(cos_data) == [totalProducts |-> Len(cos_data), products |-> cos_data]

\* lines 122-137
Document(now, excel_file_path, setup_data, cos_data, info_data, financials_data) ==
    [extractedAt |-> now,
     sourceFile  |-> basename(excel_file_path),
     i_Setup     |-> SetupPart(setup_data),
     i_COS       |-> CosPart(cos_data),
     info        |-> info_data,
     financials  |-> financials_data]

\* json.dump accepts text, numbers and booleans; a date raises TypeError.
\* Only the values of info come from cells unconverted (line 376).
JsonSerializable(result) ==
    \A k \in DOMAIN result.info \ {"_labels"} :
        result.info[k].t \in {"str", "num", "bool"}

\* the content of a file: the documents written to it, and whether the
\* last write ran to its end
FileOf(docs) == [docs |-> docs, complete |-> TRUE]

\* open(path, 'w') followed by a json.dump that raises part way
TruncatedFile == [docs |-> <<>>, complete |-> FALSE]

\* a variant opening the file in append mode
AppendJson(files, path, result) ==
    IF path \in DOMAIN files
    THEN DictSet(files, path, FileOf(Append(files[path].docs, result)))
    ELSE DictSet(files, path, FileOf(<<result>>))

\* lines 145-146 when json.dump succeeds
WriteJson(files, path, result) == DictSet(files, path, FileOf(<<result>>))

\* the values a call returns: None, or the document
ReturnedNone == [ok |-> FALSE]

ReturnedDoc(result) == [ok |-> TRUE, doc |-> result]

(***************************************************************************)
(* The batch drivers: the files of a directory, listed in sorted order.    *)
(***************************************************************************)
\* the characters of file names, in code point order
CodePoints == "-./0123456789ABCDEFGHIJKLMNOPQRSTUVWXYZ_abcdefghijklmnopqrstuvwxyz"

ord(c) == CHOOSE i \in 1..Len(CodePoints) : CharAt(CodePoints, i) = c

\* a < b for two str values
RECURSIVE StrLess(_, _)
StrLess(a, b) ==
    IF b = "" THEN FALSE
    ELSE IF a = "" THEN TRUE
    ELSE IF CharAt(a, 1) = CharAt(b, 1)
         THEN StrLess(SubSeq(a, 2, Len(a)), SubSeq(b, 2, Len(b)))
         ELSE ord(CharAt(a, 1)) < ord(CharAt(b, 1))

\* a listing in the opposite order
RECURSIVE sorted_descending(_)
sorted_descending(names) ==
    IF names = {} THEN <<>>
    ELSE LET last == CHOOSE n \in names : \A m \in names \ {n} : StrLess(m, n)
         IN  <<last>> \o sorted_descending(names \ {last})

\* sorted(os.listdir(directory))
RECURSIVE sorted(_)
sorted(names) ==
    IF names = {} THEN <<>>
    ELSE LET first == CHOOSE n \in names : \A m \in names \ {n} : StrLess(n, m)
         IN  <<first>> \o sorted(names \ {first})

endswith(s, suffix) ==
    Len(s) >= Len(suffix) /\ SubSeq(s, Len(s) - Len(suffix) + 1, Len(s)) = suffix

allowed_exts == <<".xlsm", ".xlsx">>

HasAllowedExt(name) ==
    \E k \in 1..Len(allowed_exts) : endswith(lower(name), allowed_exts[k])

\* os.path.join(directory, name)
join(directory, name) == directory \o "/" \o name

\* extract.py lines 632-642: the paths of the names the loop keeps
RECURSIVE BatchFiles(_, _)
BatchFiles(directory_path, names) ==
    IF names = <<>> THEN <<>>
    ELSE LET filename == Head(names)
         IN  IF \/ startswith(filename, ".")
                \/ ~HasAllowedExt(filename)
                \/ filename = "subsectors-example.xlsx"
             THEN BatchFiles(directory_path, Tail(names))
             ELSE <<join(directory_path, filename)>> \o BatchFiles(directory_path, Tail(names))

\* batch_classify.py lines 13-20
RECURSIVE ClassifyFiles(_, _)
ClassifyFiles(directory, names) ==
    IF names = <<>> THEN <<>>
    ELSE LET name == Head(names)
         IN  IF \/ startswith(name, ".")
                \/ name = "Sub-Sectors_vf.xlsx"
                \/ ~HasAllowedExt(name)
             THEN ClassifyFiles(directory, Tail(names))
             ELSE <<join(directory, name)>> \o ClassifyFiles(directory, Tail(names))

list_excel_files(directory, listing) == ClassifyFiles(directory, sorted(listing))

\* the list process_batch_directory builds, lines 632-642
ListBatchFiles(directory_path, listing) == BatchFiles(directory_path, sorted(listing))

get_company_name_from_extracted(data) ==
    IF "Business Name" \in DOMAIN data.i_Setup.fields
    THEN strip(data.i_Setup.fields["Business Name"].value)
    ELSE ""

\* batch_classify.py lines 75-87; result is what the classifier returned
CsvRow(excel_path, extracted, result) ==
    [source_file  |-> basename(excel_path),
     company_name |-> IF get_company_name_from_extracted(extracted) # ""
                      THEN get_company_name_from_extracted(extracted)
                      ELSE splitext_root(basename(excel_path)),
     sector       |-> result]

\* lines 94-100: the rows are appended, under a header if the file is new
WriteCsv(csv, collected) ==
    IF collected = <<>> THEN csv
    ELSE [exists |-> TRUE,
          header |-> IF csv.exists THEN csv.header ELSE TRUE,
          rows   |-> csv.rows \o collected]

(***************************************************************************)
(* State.                                                                  *)
(***************************************************************************)
VARIABLES
    pc,              \* control position of the run being modelled
    sheetnames,      \* workbook.sheetnames, in workbook order
    role,            \* the role whose sheet is being resolved
    resolved,        \* the value returned by find_sheet_by_variations
    worksheet,       \* the sheet handed to an extractor
    output,          \* the value the extractor returned
    text,            \* the text handed to a normalizing function
    disk,            \* the spreadsheet files: path -> workbook file
    files,           \* the JSON files: path -> content
    excel_file_path, \* the argument of extract_setup_data_to_json
    local,           \* its local variables
    message,         \* the error line it printed, "" if none
    clock,           \* the last time read from datetime.now()
    calls,           \* the lookups and extractors it has run, in order
    files_before,    \* the JSON files as they were when it was called
    returned,        \* the values returned by the calls made so far
    driver,          \* the batch program that is running
    excel_files,     \* the paths the batch program listed, in processing order
    processed,       \* the paths it has handed to extract_setup_data_to_json
    classified,      \* the paths whose document the classifier has classified
    rows,            \* the rows batch_classify has collected
    successful,      \* the counters of process_batch_directory
    failed,
    output_csv       \* the results file of batch_classify

resolverVars == <<sheetnames, role, resolved>>

extractorVars == <<worksheet, output, text>>

runVars == <<disk, files, excel_file_path, local, message, clock, calls,
             files_before, returned>>

batchVars == <<driver, excel_files, processed, classified, rows, successful,
               failed, output_csv>>

vars == <<pc, resolverVars, extractorVars, runVars, batchVars>>

EmptySheet == [max_row |-> 1, cells |-> <<>>]

\* the local variables of extract_setup_data_to_json before any is assigned
FreshLocals ==
    [setup_sheet_name |-> NotFound, cos_sheet_name |-> NotFound,
     info_sheet_name |-> NotFound, financials_sheet_name |-> NotFound,
     info_data |-> <<>>, financials_data |-> <<>>,
     setup_data |-> <<>>, cos_data |-> <<>>, result |-> <<>>]

\* the variables of the parts a specification does not exercise
ResolverIdle == sheetnames = <<>> /\ role = "setup" /\ resolved = NotFound

ExtractorIdle == worksheet = EmptySheet /\ output = <<>> /\ text = ""

RunIdle ==
    /\ disk = <<>> /\ files = <<>> /\ excel_file_path = "" /\ local = FreshLocals
    /\ message = "" /\ clock = 0 /\ calls = <<>> /\ files_before = <<>>
    /\ returned = <<>>

\* no file yet at the path of the results file
NoCsv == [exists |-> FALSE, header |-> FALSE, rows |-> <<>>]

BatchIdle ==
    /\ driver = "none" /\ excel_files = <<>> /\ processed = <<>>
    /\ classified = <<>> /\ rows = <<>> /\ successful = 0 /\ failed = 0
    /\ output_csv = NoCsv

(***************************************************************************)
(* Sheet names a workbook may hold.  No two are equal up to letter case,   *)
(* as spreadsheet applications require of the tabs of one workbook.        *)
(***************************************************************************)
SheetNamePool ==
    { "I_SETUP", "Setup", "i__Setup", "Setup Data", "SUMMARY", "Summary_Sheet",
      "i_COS", "Cost Of  Sales", "Costs", "Info", "INFORMATION",
      "Financial_Statements", "FS", "Sheet1" }

\* the sequences of at most n distinct elements of S
RECURSIVE DistinctSeqs(_, _)
DistinctSeqs(S, n) ==
    IF n = 0 THEN {<<>>}
    ELSE LET shorter == DistinctSeqs(S, n - 1)
         IN  shorter \cup
             {Append(q, x) : <<q, x>> \in
                 {<<q, x>> \in shorter \X S :
                     Len(q) = n - 1 /\ \A k \in 1..Len(q) : q[k] # x}}

Workbooks == DistinctSeqs(SheetNamePool, MaxSheets)

(***************************************************************************)
(* The sheet resolver run on its own: one call of                          *)
(* find_sheet_by_variations for one role on one workbook.                  *)
(***************************************************************************)
InitResolver ==
    /\ pc = "resolve"
    /\ sheetnames \in Workbooks
    /\ role \in Roles
    /\ resolved = NotFound
    /\ ExtractorIdle
    /\ RunIdle
    /\ BatchIdle

ResolveSheet ==
    /\ pc = "resolve"
    /\ resolved' = ResolveRole(sheetnames, role)
    /\ pc' = "resolved"
    /\ UNCHANGED <<sheetnames, role, extractorVars, runVars, batchVars>>

NextResolver == ResolveSheet

SpecResolver == InitResolver /\ [][NextResolver]_vars

(***************************************************************************)
(* The three kinds of match between a sheet name and a candidate name.     *)
(***************************************************************************)
ExactMatch(sheet_name, name) == lower(sheet_name) = lower(name)

NormalizedMatch(sheet_name, name) == normalize(sheet_name) = normalize(name)

PartialMatch(sheet_name, name) ==
    \/ IsSubstring(normalize(name), normalize(sheet_name))
    \/ IsSubstring(normalize(sheet_name), normalize(name))

AllNames(r) == PrimaryNames(r) \o FallbackNames(r)

SheetIdx == 1..Len(sheetnames)

CandIdx == 1..Len(AllNames(role))

\* (i, j) is the first pair, candidates outermost, for which M holds
FirstPair(M(_, _), i, j) ==
    /\ M(sheetnames[j], AllNames(role)[i])
    /\ \A i2 \in CandIdx, j2 \in SheetIdx :
          M(sheetnames[j2], AllNames(role)[i2]) =>
              (i < i2 \/ (i = i2 /\ j <= j2))

AnyMatch(M(_, _)) ==
    \E i \in CandIdx, j \in SheetIdx : M(sheetnames[j], AllNames(role)[i])

PrimaryIdx == 1..Len(PrimaryNames(role))

MatchesPrimary(sheet_name) ==
    \E i \in PrimaryIdx : ExactMatch(sheet_name, PrimaryNames(role)[i])

\* C2 as stated: for every sheet whose name equals a primary name up to
\* letter case, resolution returns that sheet's name.
C2_EverySuchSheetReturned ==
    pc = "resolved" =>
        \A j \in SheetIdx :
            MatchesPrimary(sheetnames[j]) => resolved = Found(sheetnames[j])

\* C2 amended: when some sheet equals a primary name up to letter case,
\* resolution succeeds and returns, spelled as in the workbook, the sheet
\* that matches the earliest primary name matched by any sheet; when only
\* one sheet matches a primary name, it is that sheet.
C2_PrimaryMatchReturned ==
    pc = "resolved" =>
        ((\E j \in SheetIdx : MatchesPrimary(sheetnames[j])) =>
            /\ resolved.found
            /\ \E j \in SheetIdx, i \in PrimaryIdx :
                  /\ resolved.name = sheetnames[j]
                  /\ ExactMatch(sheetnames[j], PrimaryNames(role)[i])
                  /\ \A i2 \in 1..(i - 1) : \A j2 \in SheetIdx :
                        ~ExactMatch(sheetnames[j2], PrimaryNames(role)[i2])
            /\ \A j \in SheetIdx :
                  (/\ MatchesPrimary(sheetnames[j])
                   /\ \A j2 \in SheetIdx \ {j} : ~MatchesPrimary(sheetnames[j2]))
                      => resolved.name = sheetnames[j])

\* a sheet spelled in another case than every candidate is returned as is
C2_Witness ==
    /\ pc = "resolved"
    /\ resolved.found
    /\ MatchesPrimary(resolved.name)
    /\ \A i \in CandIdx : AllNames(role)[i] # resolved.name
    /\ Len(sheetnames) > 1

\* C3: a workbook with a sheet whose name is a candidate name with extra
\* spaces or underscores (equal only after normalization) resolves: the
\* result is a sheet of the workbook whose normalized name equals the
\* normalized form of some candidate.
C3_NormalizedResolves ==
    pc = "resolved" =>
        ((\E j \in SheetIdx, i \in CandIdx :
              /\ NormalizedMatch(sheetnames[j], AllNames(role)[i])
              /\ ~ExactMatch(sheetnames[j], AllNames(role)[i])) =>
            /\ resolved.found
            /\ \E j \in SheetIdx : resolved.name = sheetnames[j]
            /\ \E i \in CandIdx : NormalizedMatch(resolved.name, AllNames(role)[i]))

\* the sheet returned matches no candidate exactly, it was found by the
\* normalized phase
C3_Witness ==
    /\ pc = "resolved"
    /\ resolved.found
    /\ \A i \in CandIdx : ~ExactMatch(resolved.name, AllNames(role)[i])
    /\ \E i \in CandIdx : NormalizedMatch(resolved.name, AllNames(role)[i])
    /\ Len(sheetnames) > 1

\* C24: find_sheet_by_variations returns None exactly when no sheet of the
\* workbook matches a candidate, primary or fallback, by case-insensitive
\* equality, by equality of the normalized forms or by containment of one
\* normalized form in the other; a name it returns is a sheet name of the
\* workbook, as the workbook spells it.
C24_AbsentIffNoMatch ==
    pc = "resolved" =>
        /\ ~resolved.found <=>
              \A i \in CandIdx, j \in SheetIdx :
                  /\ ~ExactMatch(sheetnames[j], AllNames(role)[i])
                  /\ ~NormalizedMatch(sheetnames[j], AllNames(role)[i])
                  /\ ~PartialMatch(sheetnames[j], AllNames(role)[i])
        /\ resolved.found => \E j \in SheetIdx : resolved.name = sheetnames[j]
        /\ ~resolved.found => resolved = NotFound

\* a workbook of several sheets none of which matches a candidate of the
\* role: the call has returned None
C24_Witness ==
    /\ pc = "resolved"
    /\ Len(sheetnames) > 1
    /\ ~resolved.found
    /\ \E j \in SheetIdx : sheetnames[j] = "Sheet1"

(***************************************************************************)
(* The product extractor run on its own on one Cost-of-Sales sheet.        *)
(***************************************************************************)
MaxCosRows == 3

\* rows of a Cost-of-Sales sheet: <<column H, column I>>
CosRowPool ==
    { <<Text("Widget"), Text("Materials")>>,
      <<Text(" Widget "), Text("Materials")>>,
      <<Text("Gadget"), Text("Materials")>>,
      <<Text("Widget"), Text("Labour")>>,
      <<Text(""), Text("")>>,
      <<Text("Product Name"), Text("Cost of Sales Category")>>,
      <<Text("Product Name"), Text("Materials")>>,
      <<Text("Gadget"), Text(" Cost of Sales Category")>>,
      <<Text("  "), Text("Materials")>>,
      <<Number("5"), Text("Materials")>>,
      <<Text("Gadget"), Number("7")>>,
      <<Text("Gadget"), NoValue>> }

CosSheets == {SheetOfRows(rs, <<ColH, ColI>>) : rs \in SeqsUpTo(CosRowPool, MaxCosRows)}

InitCos ==
    /\ pc = "extract"
    /\ worksheet \in CosSheets
    /\ output = <<>>
    /\ text = ""
    /\ ResolverIdle
    /\ RunIdle
    /\ BatchIdle

ExtractCos ==
    /\ pc = "extract"
    /\ output' = extract_i_cos_data(worksheet)
    /\ pc' = "extracted"
    /\ UNCHANGED <<worksheet, text, resolverVars, runVars, batchVars>>

NextCos == ExtractCos

SpecCos == InitCos /\ [][NextCos]_vars

\* the trimmed text of a cell, and whether a cell holds text at all
TrimmedText(r, c) == strip(PyStr(CellValue(worksheet, r, c)))

HoldsText(r, c) == IsStr(CellValue(worksheet, r, c))

SheetRows == 1..worksheet.max_row

\* row r holds exactly the pair of entry e
RowHoldsEntry(r, e) ==
    /\ HoldsText(r, ColH) /\ HoldsText(r, ColI)
    /\ TrimmedText(r, ColH) = e.productName
    /\ TrimmedText(r, ColI) = e.costOfSalesCategory

FirstRowOf(e) ==
    CHOOSE r \in SheetRows :
        RowHoldsEntry(r, e) /\ \A r2 \in 1..(r - 1) : ~RowHoldsEntry(r2, e)

WidgetExample ==
    SheetOfRows(<< <<Text("Widget"), Text("Materials")>>,
                   <<Text("Widget"), Text("Materials")>>,
                   <<Text(""), Text("")>> >>, <<ColH, ColI>>)

\* C8: the list returned by extract_i_cos_data holds no two entries with the
\* same (productName, costOfSalesCategory) pair, its entries are in the
\* order of the first row each pair occurs in, and the rows (Widget,
\* Materials), (Widget, Materials), (empty, empty) give exactly one entry.
C8_UniqueInFirstSeenOrder ==
    pc = "extracted" =>
        /\ \A a, b \in 1..Len(output) :
              a # b => <<output[a].productName, output[a].costOfSalesCategory>>
                         # <<output[b].productName, output[b].costOfSalesCategory>>
        /\ \A a \in 1..Len(output) : \E r \in SheetRows : RowHoldsEntry(r, output[a])
        /\ \A a, b \in 1..Len(output) :
              a < b => FirstRowOf(output[a]) < FirstRowOf(output[b])
        /\ worksheet = WidgetExample =>
              output = <<[productName |-> "Widget", costOfSalesCategory |-> "Materials"]>>

\* a pair occurring in two rows, after another pair, is listed once and
\* after it
C8_Witness ==
    /\ pc = "extracted"
    /\ Len(output) = 2
    /\ worksheet.max_row = 3
    /\ RowHoldsEntry(1, output[1])
    /\ RowHoldsEntry(2, output[2])
    /\ RowHoldsEntry(3, output[1])

\* the condition under which a row yields a product, as the specification
\* states it (text compared after trimming)
YieldsProduct(r) ==
    /\ HoldsText(r, ColH) /\ HoldsText(r, ColI)
    /\ TrimmedText(r, ColH) # "" /\ TrimmedText(r, ColI) # ""
    /\ TrimmedText(r, ColH) # "Product Name"
    /\ TrimmedText(r, ColI) # "Cost of Sales Category"

\* C9: a row contributes a product entry if and only if columns H and I
\* both hold non-empty text and neither is its header literal; rows with a
\* non-text, empty or whitespace-only value in either column contribute
\* nothing.
C9_RowYieldsEntryIff ==
    pc = "extracted" =>
        {output[a] : a \in 1..Len(output)} =
            {[productName |-> TrimmedText(r, ColH),
              costOfSalesCategory |-> TrimmedText(r, ColI)] :
                 r \in {r2 \in SheetRows : YieldsProduct(r2)}}

\* a sheet with a product row, a header row and a row with a number in
\* column H: only the product row contributes
C9_Witness ==
    /\ pc = "extracted"
    /\ Len(output) = 1
    /\ \E r \in SheetRows : YieldsProduct(r)
    /\ \E r \in SheetRows : TrimmedText(r, ColH) = "Product Name"
    /\ \E r \in SheetRows : ~HoldsText(r, ColH)

(***************************************************************************)
(* The metrics extractor run on its own on one Info sheet.                 *)
(***************************************************************************)
MaxInfoRows == 3

\* rows of an Info sheet: <<column A, column B>>
InfoRowPool ==
    { <<Text("Number of Beds"), Number("10")>>,
      <<Text("number_of_beds"), Number("12")>>,
      <<Text(" Number  of Beds! "), Text("many")>>,
      <<Text("_labels"), Number("1")>>,
      <<Text("__Occupancy %__"), Number("0.8")>>,
      <<Text("Label"), Text("Value")>>,
      <<Text("#note"), Number("3")>>,
      <<Text("%%"), Number("4")>>,
      <<Text("  "), Number("5")>>,
      <<Text("Occupancy"), NoValue>>,
      <<Number("2024"), Text("year")>>,
      <<NoValue, Number("6")>> }

InfoSheets == {SheetOfRows(rs, <<ColA, ColB>>) : rs \in SeqsUpTo(InfoRowPool, MaxInfoRows)}

InitInfo ==
    /\ pc = "extract_info"
    /\ worksheet \in InfoSheets
    /\ output = <<>>
    /\ text = ""
    /\ ResolverIdle
    /\ RunIdle
    /\ BatchIdle

ExtractInfo ==
    /\ pc = "extract_info"
    /\ output' = extract_info_data(worksheet)
    /\ pc' = "extracted_info"
    /\ UNCHANGED <<worksheet, text, resolverVars, runVars, batchVars>>

NextInfo == ExtractInfo

SpecInfo == InitInfo /\ [][NextInfo]_vars

MetricKeys == DOMAIN output \ {"_labels"}

\* C10: in the mapping returned by extract_info_data every key other than
\* _labels has an entry in _labels and _labels has no other key, also when
\* two labels normalize to one key and when a label's text is "_labels",
\* which never takes the place of the reserved entry.
C10_LabelsCoverKeys ==
    pc = "extracted_info" =>
        /\ "_labels" \in DOMAIN output =>
              /\ output["_labels"].t = "dict"
              /\ DOMAIN output["_labels"].d = MetricKeys
        /\ "_labels" \notin DOMAIN output => MetricKeys = {}
        /\ \A k \in MetricKeys : output[k].t # "dict"

\* a sheet with the label "_labels" and two labels that share a key
C10_Witness ==
    /\ pc = "extracted_info"
    /\ \E r \in SheetRows : TrimmedText(r, ColA) = "_labels"
    /\ \E r1, r2 \in SheetRows :
          /\ TrimmedText(r1, ColA) # TrimmedText(r2, ColA)
          /\ normalize_key(TrimmedText(r1, ColA)) = normalize_key(TrimmedText(r2, ColA))
          /\ normalize_key(TrimmedText(r1, ColA)) \in MetricKeys
    /\ "labels" \in MetricKeys

\* the label of row r as the claim reads it: the trimmed text of column A
RowLabel(r) == TrimmedText(r, ColA)

HeaderWords == {"label", "metric", "name", "description", "info"}

\* the row is one the claim says is skipped
SkippedByLabel(r) ==
    \/ CellValue(worksheet, r, ColA) = NoValue
    \/ RowLabel(r) = ""
    \/ lower(RowLabel(r)) \in HeaderWords
    \/ CharAt(RowLabel(r), 1) = "#"

\* C12 as stated: every row not skipped for its label is stored, its key
\* holding the row's raw value and _labels holding its label.
C12_EveryOtherRowStored ==
    pc = "extracted_info" =>
        \A r \in SheetRows :
            ~SkippedByLabel(r) =>
                /\ normalize_key(RowLabel(r)) \in MetricKeys
                /\ output[normalize_key(RowLabel(r))] = CellValue(worksheet, r, ColB)
                /\ output["_labels"].d[normalize_key(RowLabel(r))] = RowLabel(r)

\* the rows that are stored: not skipped for their label, with a value in
\* column B and a label that has a non-empty key
StoredRow(r) ==
    /\ ~SkippedByLabel(r)
    /\ CellValue(worksheet, r, ColB) # NoValue
    /\ normalize_key(RowLabel(r)) # ""

\* the last stored row with the key of row r
LastWithKey(r) ==
    CHOOSE q \in SheetRows :
        /\ StoredRow(q)
        /\ normalize_key(RowLabel(q)) = normalize_key(RowLabel(r))
        /\ \A q2 \in SheetRows :
              (StoredRow(q2) /\ normalize_key(RowLabel(q2)) = normalize_key(RowLabel(r)))
                 => q2 <= q

\* C12, amended: a row is skipped if its label is empty, a header word or
\* starts with #, and also if its value cell is empty or its label has an
\* empty key; the keys of the result are those of the other rows, each
\* with the raw value and the trimmed label of the last row that has it.
C12_StoredRowsExactly ==
    pc = "extracted_info" =>
        /\ MetricKeys = {normalize_key(RowLabel(r)) : r \in {q \in SheetRows : StoredRow(q)}}
        /\ \A r \in SheetRows :
              StoredRow(r) =>
                 /\ output[normalize_key(RowLabel(r))] =
                       CellValue(worksheet, LastWithKey(r), ColB)
                 /\ output["_labels"].d[normalize_key(RowLabel(r))] =
                       RowLabel(LastWithKey(r))

\* a sheet with a row without a value and a stored row replaced by a later
\* one with the same key
C12_Witness ==
    /\ pc = "extracted_info"
    /\ \E r \in SheetRows : StoredRow(r) /\ LastWithKey(r) # r
    /\ \E r \in SheetRows :
          ~SkippedByLabel(r) /\ CellValue(worksheet, r, ColB) = NoValue

(***************************************************************************)
(* Workbook files.  A file is readable or not; a readable one has its      *)
(* sheets in order and the content of each sheet.                          *)
(***************************************************************************)
SetupSample ==
    [max_row |-> 45,
     cells |->
        (<<1, ColG>> :> Number("1") @@ <<1, ColH>> :> Text("Business Name")
         @@ <<1, ColI>> :> Text("Text") @@ <<1, ColM>> :> Text("Acme Ltd")
         @@ <<2, ColG>> :> Number("2") @@ <<2, ColH>> :> Text("Industry Details")
         @@ <<2, ColI>> :> Text("Table")
         @@ <<3, ColG>> :> Number("3.0") @@ <<3, ColH>> :> Text(" Revenue Streams ")
         @@ <<3, ColM>> :> Number("2")
         @@ <<19, ColH>> :> Text("Industry Type") @@ <<19, ColM>> :> Text("Single")
         @@ <<20, ColH>> :> Text("Primary Industry") @@ <<20, ColM>> :> Text("Retail")
         @@ <<44, ColM>> :> Text("Name") @@ <<44, ColO>> :> Text("Type")
         @@ <<45, ColH>> :> Text("Revenue Steam 1") @@ <<45, ColI>> :> Text("Group")
         @@ <<45, ColM>> :> Text("Shop sales") @@ <<45, ColO>> :> Text("Product"))]

\* a Setup sheet with two rows for one field name and one section
SetupSampleRepeated ==
    [max_row |-> 61,
     cells |->
        (<<1, ColG>> :> Number("1") @@ <<1, ColH>> :> Text("Business Name")
         @@ <<1, ColI>> :> Text("Text") @@ <<1, ColM>> :> Text("Acme Ltd")
         @@ <<2, ColG>> :> Number("2") @@ <<2, ColH>> :> Text(" Business Name ")
         @@ <<2, ColI>> :> Text("Text") @@ <<2, ColM>> :> Text("Acme Holdings")
         @@ <<3, ColG>> :> Number("3") @@ <<3, ColH>> :> Text("Cost of Sales")
         @@ <<3, ColI>> :> Text("Table")
         @@ <<59, ColM>> :> Text("Name") @@ <<59, ColO>> :> Text("Type")
         @@ <<60, ColH>> :> Text("Category 1") @@ <<60, ColM>> :> Text("Materials")
         @@ <<60, ColO>> :> Text("Direct")
         @@ <<61, ColH>> :> Text("Category 2") @@ <<61, ColM>> :> Text("Labour"))]

CosSample ==
    SheetOfRows(<< <<Text("Product Name"), Text("Cost of Sales Category")>>,
                   <<Text("Widget"), Text("Materials")>>,
                   <<Text("Widget"), Text("Materials")>>,
                   <<Text("Gadget"), Text("Labour")>> >>, <<ColH, ColI>>)

InfoSample ==
    SheetOfRows(<< <<Text("Metric"), Text("Value")>>,
                   <<Text("Number of Beds"), Number("10")>> >>, <<ColA, ColB>>)

\* an Info sheet with a date in its value column
InfoSampleDated ==
    SheetOfRows(<< <<Text("Number of Beds"), Number("10")>>,
                   <<Text("Opened"), Date("2020-01-01 00:00:00")>> >>, <<ColA, ColB>>)

FinancialsSample ==
    [max_row |-> 2,
     cells |-> (<<1, ColA>> :> Text("COGS") @@ <<1, ColF>> :> Text("Packaging")
                @@ <<2, ColE>> :> Text("Expenses") @@ <<2, ColG>> :> Text("Rent"))]

BookNamePool == {"I_SETUP", "Summary_Sheet", "i_COS", "Info", "FS"}

Variants == {"plain", "dated"}

\* workbook[sheet_name] for a workbook of the given variant
SheetContent(sheet_name, variant) ==
    CASE sheet_name = "I_SETUP" -> SetupSample
      [] sheet_name = "Summary_Sheet" -> SetupSampleRepeated
      [] sheet_name = "i_COS" -> CosSample
      [] sheet_name = "Info" ->
            IF variant = "dated" THEN InfoSampleDated ELSE InfoSample
      [] sheet_name = "FS" -> FinancialsSample
      [] OTHER -> EmptySheet

MaxBookSheets == 3

ReadableBooks ==
    {[status |-> "ok", sheetnames |-> names, variant |-> v] :
        names \in DistinctSeqs(BookNamePool, MaxBookSheets) \ {<<>>}, v \in Variants}

\* a file that openpyxl.load_workbook cannot read, and a path with no file
UnreadableBooks ==
    {[status |-> st, sheetnames |-> <<>>, variant |-> "plain"] :
        st \in {"corrupt", "missing"}}

(***************************************************************************)
(* extract_setup_data_to_json, one action per block of the function.       *)
(***************************************************************************)
MaxClock == 1

book == disk[excel_file_path]

Sheet(found_name) == SheetContent(found_name.name, book.variant)

\* the call: a new frame, nothing printed yet
Call(path) ==
    /\ excel_file_path' = path
    /\ local' = FreshLocals
    /\ message' = ""
    /\ calls' = <<>>
    /\ files_before' = files
    /\ pc' = "load"

\* return value
Return(value) ==
    /\ returned' = Append(returned, value)
    /\ pc' = "returned"

\* line 65; lines 159-164 when load_workbook raises
LoadWorkbook ==
    /\ pc = "load"
    /\ IF book.status = "ok"
       THEN /\ pc' = "find_setup"
            /\ UNCHANGED <<message, returned>>
       ELSE /\ message' = (IF book.status = "missing"
                           THEN "Error: Excel file '" \o excel_file_path \o "' not found."
                           ELSE "Error occurred: File is not a zip file")
            /\ Return(ReturnedNone)
    /\ UNCHANGED <<resolverVars, extractorVars, batchVars, disk, files, excel_file_path,
                   local, clock, calls, files_before>>

\* lines 67-78
FindSetupSheet ==
    /\ pc = "find_setup"
    /\ LET setup_sheet_name == ResolveRole(book.sheetnames, "setup")
       IN  /\ local' = [local EXCEPT !.setup_sheet_name = setup_sheet_name]
           /\ calls' = Append(calls, "find_setup")
           /\ IF setup_sheet_name.found
              THEN /\ pc' = "find_cos"
                   /\ UNCHANGED <<message, returned>>
              ELSE /\ message' = MissingSheetMessage("setup", book.sheetnames)
                   /\ Return(ReturnedNone)
    /\ UNCHANGED <<resolverVars, extractorVars, batchVars, disk, files, excel_file_path,
                   clock, files_before>>

\* lines 80-90
FindCosSheet ==
    /\ pc = "find_cos"
    /\ LET cos_sheet_name == ResolveRole(book.sheetnames, "cos")
       IN  /\ local' = [local EXCEPT !.cos_sheet_name = cos_sheet_name]
           /\ calls' = Append(calls, "find_cos")
           /\ IF cos_sheet_name.found
              THEN /\ pc' = "find_info"
                   /\ UNCHANGED <<message, returned>>
              ELSE /\ message' = MissingSheetMessage("cos", book.sheetnames)
                   /\ Return(ReturnedNone)
    /\ UNCHANGED <<resolverVars, extractorVars, batchVars, disk, files, excel_file_path,
                   clock, files_before>>

\* lines 92-101
FindInfoSheet ==
    /\ pc = "find_info"
    /\ LET info_sheet_name == ResolveRole(book.sheetnames, "info")
       IN  IF info_sheet_name.found
           THEN /\ local' = [local EXCEPT !.info_sheet_name = info_sheet_name,
                                          !.info_data = extract_info_data(Sheet(info_sheet_name))]
                /\ calls' = calls \o <<"find_info", "extract_info_data">>
           ELSE /\ local' = [local EXCEPT !.info_sheet_name = info_sheet_name,
                                          !.info_data = <<>>]
                /\ calls' = Append(calls, "find_info")
    /\ pc' = "find_financials"
    /\ UNCHANGED <<resolverVars, extractorVars, batchVars, disk, files, excel_file_path,
                   message, clock, files_before, returned>>

\* lines 103-113
FindFinancialsSheet ==
    /\ pc = "find_financials"
    /\ LET financials_sheet_name == ResolveRole(book.sheetnames, "financials")
       IN  IF financials_sheet_name.found
           THEN /\ local' = [local EXCEPT
                                !.financials_sheet_name = financials_sheet_name,
                                !.financials_data =
                                    extract_financials_data(Sheet(financials_sheet_name))]
                /\ calls' = calls \o <<"find_financials", "extract_financials_data">>
           ELSE /\ local' = [local EXCEPT
                                !.financials_sheet_name = financials_sheet_name,
                                !.financials_data = <<>>]
                /\ calls' = Append(calls, "find_financials")
    /\ pc' = "extract_setup"
    /\ UNCHANGED <<resolverVars, extractorVars, batchVars, disk, files, excel_file_path,
                   message, clock, files_before, returned>>

\* line 116
RunExtractSetup ==
    /\ pc = "extract_setup"
    /\ local' = [local EXCEPT !.setup_data = extract_i_setup_data(Sheet(local.setup_sheet_name))]
    /\ calls' = Append(calls, "extract_i_setup_data")
    /\ pc' = "extract_cos"
    /\ UNCHANGED <<resolverVars, extractorVars, batchVars, disk, files, excel_file_path,
                   message, clock, files_before, returned>>

\* line 119
RunExtractCos ==
    /\ pc = "extract_cos"
    /\ local' = [local EXCEPT !.cos_data = extract_i_cos_data(Sheet(local.cos_sheet_name))]
    /\ calls' = Append(calls, "extract_i_cos_data")
    /\ pc' = "assemble"
    /\ UNCHANGED <<resolverVars, extractorVars, batchVars, disk, files, excel_file_path,
                   message, clock, files_before, returned>>

\* lines 121-137; datetime.now() never runs backwards
Assemble ==
    /\ pc = "assemble"
    /\ \E now \in clock..MaxClock :
          /\ clock' = now
          /\ local' = [local EXCEPT !.result =
                          Document(now, excel_file_path, local.setup_data,
                                   local.cos_data, local.info_data,
                                   local.financials_data)]
    /\ pc' = "save"
    /\ UNCHANGED <<resolverVars, extractorVars, batchVars, disk, files, excel_file_path,
                   message, calls, files_before, returned>>

\* lines 139-157; lines 162-164 when json.dump raises
SaveJson ==
    /\ pc = "save"
    /\ IF JsonSerializable(local.result)
       THEN /\ files' = WriteJson(files, OutputJsonPath(excel_file_path), local.result)
            /\ Return(ReturnedDoc(local.result))
            /\ UNCHANGED message
       ELSE /\ files' = DictSet(files, OutputJsonPath(excel_file_path), TruncatedFile)
            /\ message' = "Error occurred: Object of type datetime is not JSON serializable"
            /\ Return(ReturnedNone)
    /\ UNCHANGED <<resolverVars, extractorVars, batchVars, disk, excel_file_path, local,
                   clock, calls, files_before>>

ExtractStep ==
    \/ LoadWorkbook
    \/ FindSetupSheet
    \/ FindCosSheet
    \/ FindInfoSheet
    \/ FindFinancialsSheet
    \/ RunExtractSetup
    \/ RunExtractCos
    \/ Assemble
    \/ SaveJson

(***************************************************************************)
(* Single-file mode: process_single_file on one workbook, run MaxRuns      *)
(* times on the unmodified file.                                           *)
(***************************************************************************)
MaxRuns == 2

BookPath == "books/acme.v2.xlsx"

\* a JSON file left by an earlier program
OldFile == FileOf(<<[extractedAt |-> 0, sourceFile |-> "old"]>>)

Init ==
    /\ pc = "start"
    /\ \E b \in ReadableBooks \cup UnreadableBooks : disk = (BookPath :> b)
    /\ files \in {<<>>, (OutputJsonPath(BookPath) :> OldFile)}
    /\ excel_file_path = ""
    /\ local = FreshLocals
    /\ message = ""
    /\ clock = 0
    /\ calls = <<>>
    /\ files_before = files
    /\ returned = <<>>
    /\ ResolverIdle
    /\ ExtractorIdle
    /\ BatchIdle

\* lines 592-597 and 701-706
ProcessSingleFile ==
    /\ pc = "start"
    /\ Call(BookPath)
    /\ UNCHANGED <<resolverVars, extractorVars, batchVars, disk, files, clock, returned>>

\* the same command run once more
ProcessAgain ==
    /\ pc = "returned"
    /\ Len(returned) < MaxRuns
    /\ Call(BookPath)
    /\ UNCHANGED <<resolverVars, extractorVars, batchVars, disk, files, clock, returned>>

Next == ProcessSingleFile \/ ExtractStep \/ ProcessAgain

Spec == Init /\ [][Next]_vars

\* some sheet of names matches a candidate of role r in one of the phases
\* (an exact or a normalized match is a containment match too)
Resolvable(names, r) ==
    \E j \in 1..Len(names), i \in 1..Len(AllNames(r)) :
        PartialMatch(names[j], AllNames(r)[i])

CallReturned == pc = "returned"

LastReturned == returned[Len(returned)]

RequiredMissing ==
    /\ CallReturned
    /\ book.status = "ok"
    /\ (~Resolvable(book.sheetnames, "setup") \/ ~Resolvable(book.sheetnames, "cos"))

IsExtractorCall(c) ==
    c \in {"extract_info_data", "extract_financials_data", "extract_i_setup_data",
           "extract_i_cos_data"}

\* C4: when no sheet resolves for the Setup role or for the Cost-of-Sales
\* role the call returns None, leaves the output JSON file as it was, and
\* prints an error listing every sheet name of the workbook; Setup is
\* checked before Cost-of-Sales, and no extractor runs before both
\* required sheets are resolved.
C4_MissingRequiredSheetFails ==
    /\ RequiredMissing =>
          /\ LastReturned = ReturnedNone
          /\ files = files_before
          /\ \A j \in 1..Len(book.sheetnames) : IsSubstring(book.sheetnames[j], message)
          /\ \A k \in 1..Len(calls) : ~IsExtractorCall(calls[k])
          /\ IF Resolvable(book.sheetnames, "setup")
             THEN calls = <<"find_setup", "find_cos">> /\ IsSubstring("'i_COS'", message)
             ELSE calls = <<"find_setup">> /\ IsSubstring("'i_Setup'", message)
    /\ \A k \in 1..Len(calls) :
          IsExtractorCall(calls[k]) =>
              /\ local.setup_sheet_name.found
              /\ local.cos_sheet_name.found
              /\ k > 2 /\ calls[1] = "find_setup" /\ calls[2] = "find_cos"

\* a workbook of several sheets with a Setup sheet and no Cost-of-Sales
\* sheet, and an older JSON file in place
C4_Witness ==
    /\ RequiredMissing
    /\ Resolvable(book.sheetnames, "setup")
    /\ Len(book.sheetnames) > 1
    /\ OutputJsonPath(excel_file_path) \in DOMAIN files

OptionalMissing ==
    /\ CallReturned
    /\ book.status = "ok"
    /\ Resolvable(book.sheetnames, "setup")
    /\ Resolvable(book.sheetnames, "cos")
    /\ (~Resolvable(book.sheetnames, "info") \/ ~Resolvable(book.sheetnames, "financials"))

\* C5: when the Setup and Cost-of-Sales sheets resolve but the Info sheet
\* or the Financials sheet does not, a document is produced and written,
\* its info (financials) entry is the empty mapping, and its i_Setup and
\* i_COS parts are those of the resolved Setup and Cost-of-Sales sheets.
C5_OptionalMissingStillSucceeds ==
    OptionalMissing =>
        /\ LastReturned.ok
        /\ files[OutputJsonPath(excel_file_path)] = FileOf(<<LastReturned.doc>>)
        /\ ~Resolvable(book.sheetnames, "info") => LastReturned.doc.info = <<>>
        /\ ~Resolvable(book.sheetnames, "financials") =>
               LastReturned.doc.financials = <<>>
        /\ LastReturned.doc.i_Setup =
               SetupPart(extract_i_setup_data(Sheet(local.setup_sheet_name)))
        /\ LastReturned.doc.i_COS =
               CosPart(extract_i_cos_data(Sheet(local.cos_sheet_name)))

\* a workbook without a Financials sheet whose Info sheet holds a date: the
\* call has returned None and left the start of a JSON file
C5_Witness ==
    /\ OptionalMissing
    /\ Resolvable(book.sheetnames, "info")
    /\ book.variant = "dated"
    /\ LastReturned = ReturnedNone
    /\ files[OutputJsonPath(excel_file_path)] = TruncatedFile

WithoutTime(doc) == [doc EXCEPT !.extractedAt = 0]

\* C7: two runs of extract_setup_data_to_json on the same unmodified
\* workbook give documents equal in every field but extractedAt, returned
\* and written; the second run takes nothing over from the first.
C7_Idempotent ==
    (CallReturned /\ Len(returned) >= 2) =>
        LET first  == returned[Len(returned) - 1]
            second == returned[Len(returned)]
            path   == OutputJsonPath(excel_file_path)
        IN  /\ first.ok = second.ok
            /\ second.ok =>
                  /\ WithoutTime(first.doc) = WithoutTime(second.doc)
                  /\ Len(files[path].docs) = 1
                  /\ Len(files_before[path].docs) = 1
                  /\ WithoutTime(files[path].docs[1]) = WithoutTime(files_before[path].docs[1])
                  /\ files[path].docs[1] = second.doc

\* two successful runs at different times
C7_Witness ==
    /\ CallReturned
    /\ Len(returned) = 2
    /\ returned[1].ok /\ returned[2].ok
    /\ returned[1].doc.extractedAt # returned[2].doc.extractedAt
    /\ returned[2].doc.i_COS.totalProducts = 2

(***************************************************************************)
(* Batch mode: process_batch_directory of extract.py and main of           *)
(* batch_classify.py over the files of one directory.                      *)
(***************************************************************************)
MaxFiles == 3

Directory == "financial_analysis"

FileNamePool ==
    { ".hidden.xlsx", "B.XLSX", "a.xlsm", "notes.txt",
      "subsectors-example.xlsx", "Sub-Sectors_vf.xlsx" }

\* the names whose workbook varies
CompanyFiles == {"B.XLSX", "a.xlsm"}

GoodBook == [status |-> "ok", sheetnames |-> <<"I_SETUP", "i_COS", "Info">>, variant |-> "plain"]

NoSetupBook == [status |-> "ok", sheetnames |-> <<"i_COS", "Sheet1">>, variant |-> "plain"]

DatedBook == [status |-> "ok", sheetnames |-> <<"I_SETUP", "i_COS", "Info">>, variant |-> "dated"]

CorruptBook == [status |-> "corrupt", sheetnames |-> <<>>, variant |-> "plain"]

BatchBooks == {GoodBook, NoSetupBook, DatedBook, CorruptBook}

\* what a file of a given name holds
BooksOf(name) ==
    IF name \in CompanyFiles THEN BatchBooks
    ELSE IF name = "notes.txt" THEN {CorruptBook}
    ELSE {GoodBook}

\* the directories of at most MaxFiles files
Directories ==
    {[p \in {join(Directory, n) : n \in DOMAIN g} |-> g[basename(p)]] :
        g \in UNION {{h \in [d -> BatchBooks] : \A n \in d : h[n] \in BooksOf(n)} :
                        d \in {e \in SUBSET FileNamePool : Cardinality(e) <= MaxFiles}}}

\* a results file left by an earlier run
OldCsv == [exists |-> TRUE, header |-> TRUE, rows |-> <<>>]

Drivers == {"process_batch_directory", "batch_classify"}

\* what the classifier may answer with
Sectors == {"Retail"}

InitBatch ==
    /\ pc = "batch_start"
    /\ driver \in Drivers
    /\ disk \in Directories
    /\ files = <<>>
    /\ excel_file_path = ""
    /\ local = FreshLocals
    /\ message = ""
    /\ clock = 0
    /\ calls = <<>>
    /\ files_before = <<>>
    /\ returned = <<>>
    /\ excel_files = <<>> /\ processed = <<>> /\ classified = <<>>
    /\ rows = <<>> /\ successful = 0 /\ failed = 0
    /\ output_csv = NoCsv
    /\ ResolverIdle
    /\ ExtractorIdle

\* os.listdir(directory)
Listing == {basename(p) : p \in DOMAIN disk}

\* extract.py lines 632-651
StartBatch ==
    /\ pc = "batch_start"
    /\ driver = "process_batch_directory"
    /\ excel_files' = ListBatchFiles(Directory, Listing)
    /\ pc' = IF excel_files' = <<>> THEN "batch_done" ELSE "batch_loop"
    /\ UNCHANGED <<resolverVars, extractorVars, runVars, driver, processed,
                   classified, rows, successful, failed, output_csv>>

\* batch_classify.py lines 43-59
StartClassify ==
    /\ pc = "batch_start"
    /\ driver = "batch_classify"
    /\ excel_files' = list_excel_files(Directory, Listing)
    /\ pc' = IF excel_files' = <<>> THEN "batch_done" ELSE "batch_loop"
    /\ UNCHANGED <<resolverVars, extractorVars, runVars, driver, processed,
                   classified, rows, successful, failed, output_csv>>

\* the next pass of the loop: extract.py lines 653-655 and 597,
\* batch_classify.py lines 61-66
NextFile ==
    /\ pc = "batch_loop"
    /\ Len(processed) < Len(excel_files)
    /\ Call(excel_files[Len(processed) + 1])
    /\ processed' = Append(processed, excel_files[Len(processed) + 1])
    /\ UNCHANGED <<resolverVars, extractorVars, disk, files, clock, returned,
                   driver, excel_files, classified, rows, successful, failed,
                   output_csv>>

\* extract.py lines 599-621 and 656: process_single_file returns, whatever
\* the extraction returned, and the pass counts the file
CountFile ==
    /\ pc = "returned"
    /\ driver = "process_batch_directory"
    /\ successful' = successful + 1
    /\ pc' = "batch_loop"
    /\ UNCHANGED <<resolverVars, extractorVars, runVars, driver, excel_files,
                   processed, classified, rows, failed, output_csv>>

\* batch_classify.py lines 67-69
SkipFile ==
    /\ pc = "returned"
    /\ driver = "batch_classify"
    /\ ~LastReturned.ok
    /\ pc' = "batch_loop"
    /\ UNCHANGED <<resolverVars, extractorVars, runVars, batchVars>>

\* batch_classify.py lines 72-91: the classifier returns a result or raises
ClassifyFile ==
    /\ pc = "returned"
    /\ driver = "batch_classify"
    /\ LastReturned.ok
    /\ \E outcome \in Sectors \cup {"raised"} :
          IF outcome = "raised"
          THEN UNCHANGED <<classified, rows>>
          ELSE /\ classified' = Append(classified, excel_file_path)
               /\ rows' = Append(rows, CsvRow(excel_file_path, LastReturned.doc, outcome))
    /\ pc' = "batch_loop"
    /\ UNCHANGED <<resolverVars, extractorVars, runVars, driver, excel_files,
                   processed, successful, failed, output_csv>>

\* extract.py lines 661-666; batch_classify.py lines 93-104.  The results
\* file is looked for only here (line 95): an earlier run left one or not.
FinishBatch ==
    /\ pc = "batch_loop"
    /\ Len(processed) = Len(excel_files)
    /\ IF driver = "batch_classify"
       THEN \E csv \in {NoCsv, OldCsv} : output_csv' = WriteCsv(csv, rows)
       ELSE UNCHANGED output_csv
    /\ pc' = "batch_done"
    /\ UNCHANGED <<resolverVars, extractorVars, runVars, driver, excel_files,
                   processed, classified, rows, successful, failed>>

NextBatch ==
    \/ StartBatch
    \/ StartClassify
    \/ NextFile
    \/ ExtractStep
    \/ CountFile
    \/ SkipFile
    \/ ClassifyFile
    \/ FinishBatch

SpecBatch == InitBatch /\ [][NextBatch]_vars

\* the names the batch program is to process: spreadsheet files that are
\* neither hidden nor the reference workbook it leaves out
EligibleName(name) ==
    /\ CharAt(name, 1) # "."
    /\ \E ext \in {".xlsm", ".xlsx"} : endswith(lower(name), ext)
    /\ name # (IF driver = "batch_classify"
               THEN "Sub-Sectors_vf.xlsx" ELSE "subsectors-example.xlsx")

\* the paths a file of the directory may have
BatchPaths == {join(Directory, n) : n \in FileNamePool}

\* what extract_setup_data_to_json yields for a file taken alone: the
\* workbook b at the path p
ResultAlone ==
    [b \in BatchBooks, p \in BatchPaths |->
        LET sheet(f) == SheetContent(f.name, b.variant)
            s_name == ResolveRole(b.sheetnames, "setup")
            c_name == ResolveRole(b.sheetnames, "cos")
            i_name == ResolveRole(b.sheetnames, "info")
            f_name == ResolveRole(b.sheetnames, "financials")
            doc == Document(0, p,
                            extract_i_setup_data(sheet(s_name)),
                            extract_i_cos_data(sheet(c_name)),
                            IF i_name.found THEN extract_info_data(sheet(i_name)) ELSE <<>>,
                            IF f_name.found THEN extract_financials_data(sheet(f_name))
                            ELSE <<>>)
        IN  IF b.status # "ok" \/ ~s_name.found \/ ~c_name.found THEN ReturnedNone
            ELSE IF JsonSerializable(doc) THEN ReturnedDoc(doc)
            ELSE ReturnedNone]

SameResult(a, b) == a.ok = b.ok /\ (a.ok => WithoutTime(a.doc) = WithoutTime(b.doc))

MaxLabelLen == 3

LabelAlphabet == {"N", "b", "2", " ", "_", "%", DottedCapitalI}

\* the texts of at most n characters of A
RECURSIVE TextsUpTo(_, _)
TextsUpTo(A, n) ==
    IF n = 0 THEN {""}
    ELSE LET shorter == TextsUpTo(A, n - 1)
         IN  shorter \cup {t \o c : t \in shorter, c \in A}

Labels == TextsUpTo(LabelAlphabet, MaxLabelLen) \cup {"Number of Beds"}

InitKey ==
    /\ pc = "label"
    /\ text \in Labels
    /\ worksheet = EmptySheet
    /\ output = <<>>
    /\ ResolverIdle
    /\ RunIdle
    /\ BatchIdle

\* lines 352-358
NormalizeKey ==
    /\ pc = "label"
    /\ output' = normalize_key(text)
    /\ pc' = "normalized_key"
    /\ UNCHANGED <<worksheet, text, resolverVars, runVars, batchVars>>

\* extract_info_data on the sheet whose only row holds the label and 10
ExtractLabel ==
    /\ pc = "label"
    /\ worksheet' = SheetOfRows(<< <<Text(text), Number("10")>> >>, <<ColA, ColB>>)
    /\ output' = extract_info_data(worksheet')
    /\ pc' = "extracted_label"
    /\ UNCHANGED <<text, resolverVars, runVars, batchVars>>

NextKey == NormalizeKey \/ ExtractLabel

SpecKey == InitKey /\ [][NextKey]_vars

IsLowerLetter(c) == \E i \in 1..Len(LowerLetters) : c = CharAt(LowerLetters, i)

IsLetterOrDigit(c) == IsWordChar(c) /\ c # "_"

\* the letters and digits of s, in order
RECURSIVE LettersAndDigits(_)
LettersAndDigits(s) ==
    IF s = "" THEN ""
    ELSE IF IsLetterOrDigit(CharAt(s, 1))
         THEN CharAt(s, 1) \o LettersAndDigits(SubSeq(s, 2, Len(s)))
         ELSE LettersAndDigits(SubSeq(s, 2, Len(s)))

\* C11: the metric key of a label holds no character that is neither a
\* word character nor whitespace, no whitespace, no upper-case letter, no
\* two adjacent underscores and no underscore at either end; its letters
\* and digits are those of the label, lower-cased; normalizing a key again
\* returns it; "Number of Beds" gives number_of_beds, labelled with the
\* original text.
C11_KeyIsNormalForm ==
    /\ pc = "normalized_key" =>
          /\ \A i \in 1..Len(output) :
                \/ IsLowerLetter(CharAt(output, i))
                \/ \E d \in 1..Len(Digits) : CharAt(output, i) = CharAt(Digits, d)
                \/ CharAt(output, i) = "_"
          /\ ~IsSubstring("__", output)
          /\ output # "" => CharAt(output, 1) # "_" /\ CharAt(output, Len(output)) # "_"
          /\ LettersAndDigits(output) = lower(LettersAndDigits(text))
          /\ normalize_key(output) = output
    /\ pc = "extracted_label" /\ text = "Number of Beds" =>
          output = ("number_of_beds" :> Number("10")
                    @@ "_labels" :> Dict("number_of_beds" :> "Number of Beds"))

\* a label holding U+0130: its key holds U+0307, which normalizing the key
\* again removes
C11_Witness ==
    /\ pc = "normalized_key"
    /\ IsSubstring(DottedCapitalI, text)
    /\ IsSubstring(CombiningDot, output)
    /\ normalize_key(output) # output

(***************************************************************************)
(* extract_financials_data on the sheets of at most MaxFinRows rows.       *)
(***************************************************************************)
MaxFinRows == 3

\* rows of a Financials sheet: <<column A, column E, column F, column G>>
FinRowPool ==
    { <<Text("COGS"), NoValue, Text("Packaging"), NoValue>>,
      <<NoValue, Text("Expenses"), NoValue, Text("Rent")>>,
      <<Text("COGS"), Text("Expenses"), Text(" Packaging "), Text("Boxes")>>,
      <<Text("Misc"), Text("Expenses"), NoValue, Text("Boxes")>>,
      <<Text("Sub1"), Text("Income"), Text("Fees"), Text("4000-10")>>,
      <<Text("Misc"), Text("Other"), Text("Packaging"), Text("Rent")>>,
      <<Text("Sales"), Text("Category"), NoValue, Text("Boxes")>>,
      <<Text("COGS"), Text("Expenses"), Number("100"), Text("1,200.50")>>,
      <<Number("0"), Text("Finance charges"), Text("Interest"), Text(" SUB3 ")>> }

FinColumns == <<ColA, ColE, ColF, ColG>>

FinSheets == {SheetOfRows(rs, FinColumns) : rs \in SeqsUpTo(FinRowPool, MaxFinRows)}

InitFin ==
    /\ pc = "extract_financials"
    /\ worksheet \in FinSheets
    /\ output = <<>>
    /\ text = ""
    /\ ResolverIdle
    /\ RunIdle
    /\ BatchIdle

ExtractFinancials ==
    /\ pc = "extract_financials"
    /\ output' = extract_financials_data(worksheet)
    /\ pc' = "extracted_financials"
    /\ UNCHANGED <<worksheet, text, resolverVars, runVars, batchVars>>

NextFin == ExtractFinancials

SpecFin == InitFin /\ [][NextFin]_vars

\* the category the text of a cell resolves to, NoCategory if none
ResolvesTo(cell) ==
    IF cell = NoValue THEN NoCategory ELSE normalize_category(strip(PyStr(cell)))

\* neither category column of row r resolves to one of the five
Unresolved(r) ==
    /\ ResolvesTo(CellValue(worksheet, r, ColA)) \notin EXPECTED_CATEGORIES
    /\ ResolvesTo(CellValue(worksheet, r, ColE)) \notin EXPECTED_CATEGORIES

\* the sheet with the rows of R emptied
SheetWithout(R) ==
    [worksheet EXCEPT !.cells =
        [p \in {q \in DOMAIN worksheet.cells : q[1] \notin R} |-> worksheet.cells[p]]]

\* C13: every top-level key of the result of extract_financials_data is one
\* of the five categories, and the rows whose category texts resolve to
\* none of them contribute nothing: the result is that of the sheet with
\* those rows emptied.
C13_OnlyExpectedCategories ==
    pc = "extracted_financials" =>
        /\ DOMAIN output \subseteq
              {"revenue", "cost_of_sale", "opex", "financing_cost", "capex"}
        /\ output = extract_financials_data(SheetWithout({r \in SheetRows : Unresolved(r)}))

\* a sheet with a row of usable subcategory texts whose category texts do
\* not resolve, and a row that is filed
C13_Witness ==
    /\ pc = "extracted_financials"
    /\ \E r \in SheetRows :
          /\ Unresolved(r)
          /\ TrimmedText(r, ColA) = "Misc"
          /\ TrimmedText(r, ColF) = "Packaging"
    /\ DOMAIN output # {}

\* the category the claim gives row r: that of column A when its text
\* resolves, else that of column E when its text resolves
CategoryOfRow(r) ==
    IF ResolvesTo(CellValue(worksheet, r, ColA)) \in EXPECTED_CATEGORIES
    THEN ResolvesTo(CellValue(worksheet, r, ColA))
    ELSE IF ResolvesTo(CellValue(worksheet, r, ColE)) \in EXPECTED_CATEGORIES
         THEN ResolvesTo(CellValue(worksheet, r, ColE))
         ELSE NoCategory

\* row r has a usable subcategory or sub-subcategory
HasLineItem(r) ==
    SubText(worksheet, r, ColF) # "" \/ SubText(worksheet, r, ColG) # ""

\* the key under its category at which row r is filed
SubKeyOfRow(r) ==
    IF SubText(worksheet, r, ColF) # "" THEN SubText(worksheet, r, ColF) ELSE "_other"

FiledRows == {r \in SheetRows : HasLineItem(r) /\ CategoryOfRow(r) # NoCategory}

\* C14: each row is filed under the category of column A whenever that
\* column's text resolves, whatever column E holds, and under the category
\* of column E only when column A is empty, a header word or does not
\* resolve; the row with "Expenses" in column E and nothing in column A is
\* filed under opex.
C14_SpecificColumnFirst ==
    pc = "extracted_financials" =>
        /\ DOMAIN output = {CategoryOfRow(r) : r \in FiledRows}
        /\ \A c \in DOMAIN output :
              DOMAIN output[c] = {SubKeyOfRow(r) : r \in {q \in FiledRows : CategoryOfRow(q) = c}}
        /\ \A r \in SheetRows :
              (/\ CellValue(worksheet, r, ColA) = NoValue
               /\ CellValue(worksheet, r, ColE) = Text("Expenses")
               /\ HasLineItem(r)) => SubKeyOfRow(r) \in DOMAIN output["opex"]

\* the one row with COGS in column A and Expenses in column E is filed
\* under cost_of_sale
C14_Witness ==
    /\ pc = "extracted_financials"
    /\ worksheet.max_row = 1
    /\ CellValue(worksheet, 1, ColA) = Text("COGS")
    /\ CellValue(worksheet, 1, ColE) = Text("Expenses")
    /\ HasLineItem(1)
    /\ DOMAIN output = {"cost_of_sale"}

\* where the claim files each row: its category, its key and its leaf
RowFiling ==
    [r \in SheetRows |->
        [category |-> IF HasLineItem(r) THEN CategoryOfRow(r) ELSE NoCategory,
         key      |-> SubKeyOfRow(r),
         leaf     |-> SubText(worksheet, r, ColG)]]

\* the rows filed at key k of category c that have a sub-subcategory
LeafRows(filing, c, k) ==
    {r \in DOMAIN filing : /\ filing[r].category = c
                           /\ filing[r].key = k
                           /\ filing[r].leaf # ""}

\* the first row that files the sub-subcategory g at key k of category c
FirstLeafRow(filing, c, k, g) ==
    CHOOSE r \in LeafRows(filing, c, k) :
        /\ filing[r].leaf = g
        /\ \A q \in LeafRows(filing, c, k) : filing[q].leaf = g => r <= q

\* the result for the first n rows of the sheet
ResultOfFirst(n) == extract_financials_data([worksheet EXCEPT !.max_row = n])

IsPrefix(p, q) == Len(p) <= Len(q) /\ \A i \in 1..Len(p) : p[i] = q[i]

\* hierarchy after keeps every category, key and leaf of before, in place
KeepsEntries(before, after) ==
    /\ DOMAIN before \subseteq DOMAIN after
    /\ \A c \in DOMAIN before :
          /\ DOMAIN before[c] \subseteq DOMAIN after[c]
          /\ \A k \in DOMAIN before[c] : IsPrefix(before[c][k], after[c][k])

\* C16: a filed row's subcategory, or _other when it has only a
\* sub-subcategory, is a key under its category; the leaf list of a key
\* holds the sub-subcategories of the rows filed there, each once, in the
\* order of their first rows; a further row keeps what the rows before it
\* added; the row (COGS, Packaging) alone yields
\* {cost_of_sale: {Packaging: []}} and the row (Expenses, Rent) alone yields
\* {opex: {_other: [Rent]}}.
C16_HierarchyStructure ==
    pc = "extracted_financials" =>
        /\ LET filing == RowFiling
           IN  /\ \A r \in DOMAIN filing :
                     filing[r].category # NoCategory =>
                        /\ filing[r].category \in DOMAIN output
                        /\ filing[r].key \in DOMAIN output[filing[r].category]
               /\ \A c \in DOMAIN output : \A k \in DOMAIN output[c] :
                     LET leaves == output[c][k]
                     IN  /\ {leaves[i] : i \in 1..Len(leaves)} =
                               {filing[r].leaf : r \in LeafRows(filing, c, k)}
                         /\ \A i, j \in 1..Len(leaves) :
                               i < j =>
                                  /\ leaves[i] # leaves[j]
                                  /\ FirstLeafRow(filing, c, k, leaves[i])
                                        < FirstLeafRow(filing, c, k, leaves[j])
        /\ \A n \in 0..(worksheet.max_row - 1) :
              KeepsEntries(ResultOfFirst(n), ResultOfFirst(n + 1))
        /\ worksheet = SheetOfRows(<< <<Text("COGS"), NoValue, Text("Packaging"), NoValue>> >>,
                                   FinColumns)
              => output = ("cost_of_sale" :> ("Packaging" :> <<>>))
        /\ worksheet = SheetOfRows(<< <<NoValue, Text("Expenses"), NoValue, Text("Rent")>> >>,
                                   FinColumns)
              => output = ("opex" :> ("_other" :> <<"Rent">>))

\* a sheet where a sub-subcategory comes twice at one key, after another
\* one at the same key
C16_Witness ==
    /\ pc = "extracted_financials"
    /\ worksheet.max_row = 3
    /\ "opex" \in DOMAIN output
    /\ "_other" \in DOMAIN output["opex"]
    /\ output["opex"]["_other"] = <<"Rent", "Boxes">>
    /\ LeafRows(RowFiling, "opex", "_other") = {1, 2, 3}

(***************************************************************************)
(* normalize_category on the texts of at most MaxTerms terms.              *)
(***************************************************************************)
MaxTerms == 2

CategoryTerms ==
    { "cogs", "direct_cost", "opex", "operating_cost", "sales", "income",
      "finance", "capex", "cost_of_revenue", "expenses", "Misc", "COGS!" }

\* the texts of at most n terms, one space between two terms
RECURSIVE TermTexts(_)
TermTexts(n) ==
    IF n = 0 THEN {""}
    ELSE LET shorter == TermTexts(n - 1)
         IN  shorter \cup {IF t = "" THEN c ELSE t \o " " \o c :
                              t \in shorter, c \in CategoryTerms}

InitCategory ==
    /\ pc = "category"
    /\ text \in TermTexts(MaxTerms)
    /\ worksheet = EmptySheet
    /\ output = <<>>
    /\ ResolverIdle
    /\ RunIdle
    /\ BatchIdle

\* lines 410-502
NormalizeCategory ==
    /\ pc = "category"
    /\ output' = normalize_category(text)
    /\ pc' = "normalized_category"
    /\ UNCHANGED <<worksheet, text, resolverVars, runVars, batchVars>>

NextCategory == NormalizeCategory

SpecCategory == InitCategory /\ [][NextCategory]_vars

\* the normalized form of a text
NormalizedText(t) == StripUnderscores(lower(CollapseRuns(RemoveSpecial(strip(t)))))

\* the indicator groups in the order the claim gives
IndicatorGroups ==
    << [category |-> "cost_of_sale",
        terms |-> {"cost_of_sale", "cost_of_sales", "cogs", "cost_of_goods", "direct_cost"}],
       [category |-> "opex",
        terms |-> {"opex", "operating_expense", "operating_cost", "operating_expenditure"}],
       [category |-> "revenue", terms |-> {"revenue", "income", "sales"}],
       [category |-> "financing_cost", terms |-> {"financing", "finance", "interest"}],
       [category |-> "capex",
        terms |-> {"capex", "capital_expenditure", "capital_investment", "capital_expense"}] >>

\* the groups with an indicator in the normalized text n
MatchingGroups(n) ==
    {g \in 1..Len(IndicatorGroups) :
        \E term \in IndicatorGroups[g].terms : IsSubstring(term, n)}

\* C15: normalize_category gives the synonym table's entry for the
\* normalized text when it has one, else the category of the first group,
\* in the order cost_of_sale, opex, revenue, financing_cost, capex, with an
\* indicator in the normalized text, else no category; a text with a
\* cost-of-sale indicator that is not a table key resolves to cost_of_sale.
C15_ExactThenOrderedHeuristics ==
    pc = "normalized_category" =>
        LET n == NormalizedText(text)
            matching == MatchingGroups(n)
        IN  /\ n \in DOMAIN category_mapping => output = category_mapping[n]
            /\ n \notin DOMAIN category_mapping =>
                  /\ matching = {} => output = NoCategory
                  /\ matching # {} =>
                        \E g \in matching :
                            /\ \A h \in matching : g <= h
                            /\ output = IndicatorGroups[g].category
                  /\ 1 \in matching => output = "cost_of_sale"
            /\ /\ \E term \in IndicatorGroups[1].terms : IsSubstring(term, text)
               /\ text \notin DOMAIN category_mapping
               => output = "cost_of_sale"

\* a text with a cost-of-sale indicator after an opex indicator
C15_Witness ==
    /\ pc = "normalized_category"
    /\ text = "operating_cost cogs"
    /\ output = "cost_of_sale"

(***************************************************************************)
(* The field definitions of extract_i_setup_data on the sheets of at most  *)
(* MaxFieldRows rows.                                                      *)
(***************************************************************************)
MaxFieldRows == 2

\* rows of a Setup sheet: <<column G, column H, column I, column M>>
FieldRowPool ==
    { <<Number("1"), Text("Business Name"), Text("Text"), Text("Acme Ltd")>>,
      <<Number("2.9"), Text(" Loan Amount "), NoValue, Number("5000")>>,
      <<Number("3"), Text("  "), Text("Text"), Text("x")>>,
      <<Number("4"), Text(""), NoValue, NoValue>>,
      <<Number("5"), NoValue, Text("Text"), Text("x")>>,
      <<NoValue, Text("Notes"), Text("Text"), Text("x")>>,
      <<Text("7"), Text("Remarks"), Text("Text"), Text("x")>>,
      <<Boolean("True"), Text("Flag"), NoValue, Boolean("False")>>,
      <<Number("9"), Number("12"), Text("Text"), Text("x")>>,
      <<Number("10"), Text("Business Name"), Text("Other"), Date("2020-01-01 00:00:00")>> }

FieldColumns == <<ColG, ColH, ColI, ColM>>

FieldSheets ==
    {SheetOfRows(rs, FieldColumns) : rs \in SeqsUpTo(FieldRowPool, MaxFieldRows)}

InitFields ==
    /\ pc = "extract_fields"
    /\ worksheet \in FieldSheets
    /\ output = <<>>
    /\ text = ""
    /\ ResolverIdle
    /\ RunIdle
    /\ BatchIdle

ExtractFields ==
    /\ pc = "extract_fields"
    /\ output' = extract_i_setup_data(worksheet)
    /\ pc' = "extracted_fields"
    /\ UNCHANGED <<worksheet, text, resolverVars, runVars, batchVars>>

NextFields == ExtractFields

SpecFields == InitFields /\ [][NextFields]_vars

\* column G of row r holds a number and column H holds text that is not
\* empty once trimmed
NumberAndName(r) ==
    /\ CellValue(worksheet, r, ColG) # NoValue
    /\ CellValue(worksheet, r, ColG).t \in {"num", "bool"}
    /\ CellValue(worksheet, r, ColH) # NoValue
    /\ CellValue(worksheet, r, ColH).t = "str"
    /\ TrimmedText(r, ColH) # ""

\* C17: the field mapping has an entry for exactly the rows whose column G
\* holds a number and whose column H holds non-empty text; a row whose name
\* is empty or whitespace-only text adds no entry.
C17_FieldRowsExactly ==
    pc = "extracted_fields" =>
        DOMAIN output = {TrimmedText(r, ColH) : r \in {q \in SheetRows : NumberAndName(q)}}

\* a row with a number and a whitespace-only name: the mapping has an entry
\* under the empty name
C17_Witness ==
    /\ pc = "extracted_fields"
    /\ \E r \in SheetRows :
          /\ CellValue(worksheet, r, ColG) = Number("3")
          /\ CellValue(worksheet, r, ColH) = Text("  ")
    /\ "" \in DOMAIN output
    /\ output[""].fieldNumber = 3

(***************************************************************************)
(* The sub-tables of extract_i_setup_data: sheets with the fields of some  *)
(* sections, rows of the Industry Details range and at most MaxItemRows    *)
(* rows in or across the first two sections.                               *)
(***************************************************************************)
MaxItemRows == 3

\* rows of a section: <<column H, column I, column M, column O, column P, column S>>
ItemRowPool ==
    { <<NoValue, NoValue, Text("Name"), Text("Type"), NoValue, NoValue>>,
      <<Text("Revenue Steam 1"), Text("Group"), Text(" Shop sales "), Text("Product"),
        NoValue, NoValue>>,
      <<Text("Category 2"), NoValue, Text("  "), NoValue, Text("Retail"), NoValue>>,
      <<Text("Category 3"), NoValue, NoValue, NoValue, NoValue, Number("7")>>,
      <<Text("Stream 4"), Text("Group"), Text("Online"), Text("Service"), NoValue, NoValue>> }

ItemColumns == <<ColH, ColI, ColM, ColO, ColP, ColS>>

\* the cells of the rows rs put at rows first, first + 1, ...
CellsAt(rs, columns, first) ==
    [p \in {<<first + r - 1, columns[k]>> : r \in 1..Len(rs), k \in 1..Len(columns)} |->
        rs[p[1] - first + 1][CHOOSE k \in 1..Len(columns) : columns[k] = p[2]]]

\* the field rows of a sheet: the fields named, numbered from 1
FieldRowsOf(names) ==
    [r \in 1..Len(names) |-> <<Number("1"), Text(names[r]), Text("Table"), NoValue>>]

FieldChoices ==
    { <<"Revenue Streams", "Cost of Sales", "Industry Details", "Business Name">>,
      <<"Cost of Sales">> }

\* rows of the Industry Details range and the row after it
IndustryRows ==
    << <<Text("Primary Industry"), Text("Dropdown"), Text(" Retail ")>>,
       <<Text("Secondary Industry"), NoValue, Text("Trade")>> >>

\* rows around the start of the Industry Details range:
\* <<column H, column I, column M, column O>>
IndustryRowsMixed ==
    << <<Text("Industry Type"), NoValue, Text("Single"), NoValue>>,
       <<Text("Benchmarking Business Sector"), Text("Dropdown"), Text(" Trade "), NoValue>>,
       <<NoValue, NoValue, Text("Name"), Text("Type")>>,
       <<Text("primary industry"), NoValue, Text("x"), NoValue>>,
       <<Text("Industry Type"), NoValue, Number("5"), NoValue>> >>

IndustryChoices ==
    { <<>>,
      CellsAt(IndustryRows, <<ColH, ColI, ColM>>, IndustryLastRow),
      CellsAt(IndustryRowsMixed, <<ColH, ColI, ColM, ColO>>, IndustryFirstRow - 1) }

\* the first rows the item rows are put at: the first and the last row of
\* the first section
ItemBases == {field_sections[1].start_row, field_sections[1].end_row}

LastRowOf(cells) == CHOOSE r \in {p[1] : p \in DOMAIN cells} :
                        \A p \in DOMAIN cells : p[1] <= r

SubTableSheets ==
    { LET cells == CellsAt(FieldRowsOf(names), FieldColumns, 1) @@ industry
                   @@ CellsAt(items, ItemColumns, base)
      IN  [max_row |-> LastRowOf(cells), cells |-> cells] :
        names \in FieldChoices, industry \in IndustryChoices,
        items \in SeqsUpTo(ItemRowPool, MaxItemRows), base \in ItemBases }

InitSubTable ==
    /\ pc = "extract_subtables"
    /\ worksheet \in SubTableSheets
    /\ output = <<>>
    /\ text = ""
    /\ ResolverIdle
    /\ RunIdle
    /\ BatchIdle

ExtractSubTables ==
    /\ pc = "extract_subtables"
    /\ output' = extract_i_setup_data(worksheet)
    /\ pc' = "extracted_subtables"
    /\ UNCHANGED <<worksheet, text, resolverVars, runVars, batchVars>>

NextSubTable == ExtractSubTables

SpecSubTable == InitSubTable /\ [][NextSubTable]_vars

\* the rows of section k
SectionRange(k) == field_sections[k].start_row .. field_sections[k].end_row

\* column M of row r is "Name" and column O is "Type"
IsHeaderRow(r) ==
    /\ CellValue(worksheet, r, ColM) = Text("Name")
    /\ CellValue(worksheet, r, ColO) = Text("Type")

\* the columns of the name, the type, sub1, sub2 and sub3 of an item
ChildColumns == {ColM, ColO, ColQ, ColR, ColS}

\* the conditions the claim asks of an item row of section k
MayBeItemRow(k, r) ==
    /\ r \in SectionRange(k)
    /\ \E h \in SectionRange(k) : h < r /\ IsHeaderRow(h)
    /\ CellValue(worksheet, r, ColH).t = "str"
    /\ \/ IsSubstring("Category", CellValue(worksheet, r, ColH).s)
       \/ IsSubstring("Steam", CellValue(worksheet, r, ColH).s)
    /\ \E c \in ChildColumns : CellValue(worksheet, r, c) # NoValue

\* the rows of section k that are items: not header rows themselves, and
\* one of the five child values is not empty once trimmed
ItemRowsOf(k) ==
    {r \in SectionRange(k) :
        /\ MayBeItemRow(k, r)
        /\ ~IsHeaderRow(r)
        /\ \E c \in ChildColumns : StrippedOrEmpty(CellValue(worksheet, r, c)) # ""}

\* the members of a set of rows in increasing order
RECURSIVE InRowOrder(_)
InRowOrder(R) ==
    IF R = {} THEN <<>>
    ELSE LET first == CHOOSE r \in R : \A q \in R : r <= q
         IN  <<first>> \o InRowOrder(R \ {first})

\* C19: for each section whose field exists, the sub-table items are those
\* of rows of the section's range that come after a header row (column M
\* "Name", column O "Type") of the same range, whose column H is text
\* containing "Category" or "Steam" and one of whose five child-value
\* columns is not empty, in sheet row order; a range without a header row
\* gives the field no items.
C19_SubTableItems ==
    pc = "extracted_subtables" =>
        \A k \in 1..Len(field_sections) :
            field_sections[k].name \in DOMAIN output =>
                LET items == output[field_sections[k].name].subTableData
                    item_rows == InRowOrder(ItemRowsOf(k))
                IN  /\ Len(items) = Len(item_rows)
                    /\ \A i \in 1..Len(items) :
                          /\ MayBeItemRow(k, item_rows[i])
                          /\ items[i].itemName = TrimmedText(item_rows[i], ColH)
                          /\ items[i].sub3 =
                                StrippedOrEmpty(CellValue(worksheet, item_rows[i], ColS))
                    /\ (\A h \in SectionRange(k) : ~IsHeaderRow(h)) => items = <<>>

\* two items, in row order, after the header row of the first section
C19_Witness ==
    /\ pc = "extracted_subtables"
    /\ "Revenue Streams" \in DOMAIN output
    /\ IsHeaderRow(field_sections[1].start_row)
    /\ Len(output["Revenue Streams"].subTableData) = 2
    /\ output["Revenue Streams"].subTableData[1].itemName = "Category 3"
    /\ output["Revenue Streams"].subTableData[2].itemName = "Revenue Steam 1"

ItemKeys == {"itemName", "itemType", "name", "type", "industry", "sub1", "sub2", "sub3"}

IndustryItemKeys == {"fieldLabel", "fieldType", "value"}

\* every value of the record is a string
AllStrings(item) == \A key \in DOMAIN item : item[key] \in STRING

\* C20 as stated: every element of the subTableData of every field has
\* exactly the eight keys of a SubTableItem, each a string, Industry Details
\* included.
C20_EveryElementIsSubTableItem ==
    pc = "extracted_subtables" =>
        \A f \in DOMAIN output :
            \A i \in 1..Len(output[f].subTableData) :
                /\ DOMAIN output[f].subTableData[i] = ItemKeys
                /\ AllStrings(output[f].subTableData[i])

\* C20: every element of the subTableData of a field other than Industry
\* Details has exactly the keys itemName, itemType, name, type, industry,
\* sub1, sub2, sub3, each a string; every element of the subTableData of
\* Industry Details has exactly the keys fieldLabel, fieldType, value, each
\* a string.
C20_ElementsByField ==
    pc = "extracted_subtables" =>
        \A f \in DOMAIN output :
            \A i \in 1..Len(output[f].subTableData) :
                /\ DOMAIN output[f].subTableData[i] =
                      IF f = "Industry Details" THEN IndustryItemKeys ELSE ItemKeys
                /\ AllStrings(output[f].subTableData[i])

\* a sheet with an Industry Details element and a section item
C20_Witness ==
    /\ pc = "extracted_subtables"
    /\ "Industry Details" \in DOMAIN output
    /\ Len(output["Industry Details"].subTableData) = 1
    /\ output["Industry Details"].subTableData[1].value = "Retail"
    /\ Len(output["Revenue Streams"].subTableData) > 0

(***************************************************************************)
(* Cell content and the outcome of extract_setup_data_to_json.             *)
(***************************************************************************)
RequiredResolve ==
    /\ CallReturned
    /\ book.status = "ok"
    /\ Resolvable(book.sheetnames, "setup")
    /\ Resolvable(book.sheetnames, "cos")

\* C18: for a readable workbook whose Setup and Cost-of-Sales sheets
\* resolve, whatever its cells hold, extract_setup_data_to_json returns a
\* document and writes it to the output JSON file.
C18_CellContentNeverFails ==
    RequiredResolve =>
        /\ LastReturned.ok
        /\ OutputJsonPath(excel_file_path) \in DOMAIN files
        /\ files[OutputJsonPath(excel_file_path)] = FileOf(<<LastReturned.doc>>)

\* a workbook with all four sheets whose Info sheet holds a date in its
\* value column: the call has returned None and left the start of a JSON
\* file
C18_Witness ==
    /\ RequiredResolve
    /\ Resolvable(book.sheetnames, "info")
    /\ Resolvable(book.sheetnames, "financials")
    /\ \E r \in 1..Sheet(local.info_sheet_name).max_row :
          CellValue(Sheet(local.info_sheet_name), r, ColB).t = "date"
    /\ LastReturned = ReturnedNone
    /\ files[OutputJsonPath(excel_file_path)] = TruncatedFile

(***************************************************************************)
(* The Industry Details sub-table.                                         *)
(***************************************************************************)
\* the rows 19 to 26 whose column H is exactly one of the four labels
IndustryLabelRows ==
    {r \in 19..26 :
        CellValue(worksheet, r, ColH) \in
            {Text("Industry Type"), Text("Primary Industry"),
             Text("Secondary Industry"), Text("Benchmarking Business Sector")}}

\* C21: when the Setup sheet defines the field Industry Details, its
\* sub-table has one entry, in row order, for each row of rows 19 to 26
\* whose column H is exactly one of Industry Type, Primary Industry,
\* Secondary Industry, Benchmarking Business Sector, with or without a
\* header row; the other rows contribute nothing.
C21_IndustryDetailsRows ==
    (pc = "extracted_subtables" /\ "Industry Details" \in DOMAIN output) =>
        LET entries == output["Industry Details"].subTableData
            label_rows == InRowOrder(IndustryLabelRows)
        IN  /\ Len(entries) = Len(label_rows)
            /\ \A i \in 1..Len(entries) :
                  /\ Text(entries[i].fieldLabel) = CellValue(worksheet, label_rows[i], ColH)
                  /\ entries[i].fieldType =
                        StrippedOrEmpty(CellValue(worksheet, label_rows[i], ColI))
                  /\ entries[i].value =
                        StrippedOrEmpty(CellValue(worksheet, label_rows[i], ColM))

\* a sheet with a label above the range, a header row and another label in
\* it: the two rows of the range with one of the labels give the entries
C21_Witness ==
    /\ pc = "extracted_subtables"
    /\ "Industry Details" \in DOMAIN output
    /\ CellValue(worksheet, 18, ColH) = Text("Industry Type")
    /\ IsHeaderRow(20)
    /\ CellValue(worksheet, 21, ColH) = Text("primary industry")
    /\ Len(output["Industry Details"].subTableData) = 2
    /\ output["Industry Details"].subTableData[1].value = "Trade"
    /\ output["Industry Details"].subTableData[2].value = "5"

(***************************************************************************)
(* hasSubTable and subTableData.                                           *)
(***************************************************************************)
SectionNames ==
    {"Revenue Streams", "Cost of Sales", "Operating Costs", "Financing Costs",
     "Capital Investment", "Borrowing Details", "Credit Scoring Details",
     "Cash Flow Details", "Collateral & Other", "Recommendations"}

\* C26: in the mapping returned by extract_i_setup_data a field's
\* hasSubTable is true if and only if its subTableData is not empty, and a
\* field that is neither Industry Details nor one of the ten sections has
\* hasSubTable false and an empty subTableData.
C26_HasSubTableIffItems ==
    pc = "extracted_subtables" =>
        \A f \in DOMAIN output :
            /\ output[f].hasSubTable <=> output[f].subTableData # <<>>
            /\ f \notin SectionNames \cup {"Industry Details"} =>
                  /\ ~output[f].hasSubTable
                  /\ output[f].subTableData = <<>>

\* a sheet with a plain field, a section with items, a section without
\* items and Industry Details with entries
C26_Witness ==
    /\ pc = "extracted_subtables"
    /\ {"Business Name", "Revenue Streams", "Cost of Sales"} \subseteq DOMAIN output
    /\ output["Revenue Streams"].hasSubTable
    /\ ~output["Cost of Sales"].hasSubTable
    /\ ~output["Business Name"].hasSubTable
    /\ output["Industry Details"].hasSubTable

(***************************************************************************)
(* The counts of the document.                                             *)
(***************************************************************************)
\* the rows of sheet ws with a number in column G and text in column H
FieldRowsIn(ws) ==
    {r \in 1..ws.max_row :
        /\ CellValue(ws, r, ColG).t \in {"num", "bool"}
        /\ CellValue(ws, r, ColH).t = "str"}

NameIn(ws, r) == strip(CellValue(ws, r, ColH).s)

\* the last row of ws that defines the field named as row r names it
LastRowNamed(ws, r) ==
    CHOOSE q \in FieldRowsIn(ws) :
        /\ NameIn(ws, q) = NameIn(ws, r)
        /\ \A p \in FieldRowsIn(ws) : NameIn(ws, p) = NameIn(ws, r) => p <= q

\* C22: in every document returned totalFields is the number of entries of
\* fields, fieldsWithSubTables the number of fields with hasSubTable,
\* totalSubTableItems the number of sub-table items of all fields, and
\* totalProducts the length of products; rows of the Setup sheet with one
\* field name make one field, whose record is that of the last of them.
C22_CountsAgree ==
    (CallReturned /\ LastReturned.ok) =>
        LET doc    == LastReturned.doc
            fields == doc.i_Setup.fields
            ws     == Sheet(local.setup_sheet_name)
        IN  /\ doc.i_Setup.totalFields = Cardinality(DOMAIN fields)
            /\ doc.i_Setup.fieldsWithSubTables =
                  Cardinality({f \in DOMAIN fields : fields[f].hasSubTable})
            /\ doc.i_Setup.totalSubTableItems =
                  Cardinality({<<f, i>> \in (DOMAIN fields) \X (1..ws.max_row) :
                                  i <= Len(fields[f].subTableData)})
            /\ doc.i_COS.totalProducts = Len(doc.i_COS.products)
            /\ DOMAIN fields = {NameIn(ws, r) : r \in FieldRowsIn(ws)}
            /\ \A r \in FieldRowsIn(ws) :
                  LET last == LastRowNamed(ws, r)
                  IN  /\ fields[NameIn(ws, r)].value =
                            (IF CellValue(ws, last, ColM) = NoValue THEN ""
                             ELSE CellValue(ws, last, ColM).s)
                      /\ fields[NameIn(ws, r)].fieldType =
                            StrippedOrEmpty(CellValue(ws, last, ColI))

\* a document of a workbook whose Setup sheet names one field in two rows
C22_Witness ==
    /\ CallReturned
    /\ LastReturned.ok
    /\ Cardinality(FieldRowsIn(Sheet(local.setup_sheet_name))) = 3
    /\ LastReturned.doc.i_Setup.totalFields = 2
    /\ LastReturned.doc.i_Setup.fields["Business Name"].value = "Acme Holdings"
    /\ LastReturned.doc.i_Setup.totalSubTableItems = 2
    /\ LastReturned.doc.i_COS.totalProducts = 2

(***************************************************************************)
(* The subcategory and sub-subcategory cells of a Financials row.          *)
(***************************************************************************)
DigitAt(s, i) == CharAt(s, i) \in {"0", "1", "2", "3", "4", "5", "6", "7", "8", "9"}

\* s is a number: digits, with commas between them, at most one period and
\* at most a sign in front
ParsesAsNumber(s) ==
    /\ \E i \in 1..Len(s) : DigitAt(s, i)
    /\ \A i \in 1..Len(s) :
          \/ DigitAt(s, i)
          \/ CharAt(s, i) \in {",", "."}
          \/ i = 1 /\ CharAt(s, i) = "-"
    /\ \A i, j \in 1..Len(s) : (CharAt(s, i) = "." /\ CharAt(s, j) = ".") => i = j

\* s holds a digit and, besides digits, only commas, periods, hyphens and
\* blanks, no blank standing between two digits
OnlyDigitsAndMarks(s) ==
    /\ \E i \in 1..Len(s) : DigitAt(s, i)
    /\ \A i \in 1..Len(s) : DigitAt(s, i) \/ CharAt(s, i) \in {",", ".", "-", " "}
    /\ \A j \in 1..Len(s) :
          CharAt(s, j) = " " =>
              \/ \A i \in 1..(j - 1) : ~DigitAt(s, i)
              \/ \A k \in (j + 1)..Len(s) : ~DigitAt(s, k)

SubHeaderWords == {"sub3", "comments", "type", "category", "subcategory"}

\* the text the claim takes from a cell: trimmed, "" when the cell is empty,
\* a header word or a number
ClaimedSubText(cell) ==
    IF /\ Truthy(cell)
       /\ strip(cell.s) # ""
       /\ lower(strip(cell.s)) \notin SubHeaderWords
       /\ ~ParsesAsNumber(strip(cell.s))
    THEN strip(cell.s) ELSE ""

\* the text the amended claim takes from a cell
MarkedSubText(cell) ==
    IF /\ Truthy(cell)
       /\ strip(cell.s) # ""
       /\ lower(strip(cell.s)) \notin SubHeaderWords
       /\ ~OnlyDigitsAndMarks(strip(cell.s))
    THEN strip(cell.s) ELSE ""

\* the result holds exactly what the rows with a category give when texts[r]
\* is the pair of texts of row r
HoldsExactly(texts) ==
    LET kept == {r \in SheetRows : /\ CategoryOfRow(r) # NoCategory
                                   /\ texts[r] # <<"", "">>}
        key(r) == IF texts[r][1] # "" THEN texts[r][1] ELSE "_other"
    IN  /\ DOMAIN output = {CategoryOfRow(r) : r \in kept}
        /\ \A c \in DOMAIN output :
              /\ DOMAIN output[c] = {key(r) : r \in {q \in kept : CategoryOfRow(q) = c}}
              /\ \A k \in DOMAIN output[c] :
                    {output[c][k][i] : i \in 1..Len(output[c][k])} =
                       {texts[r][2] : r \in {q \in kept : /\ CategoryOfRow(q) = c
                                                          /\ key(q) = k
                                                          /\ texts[q][2] # ""}}

DocumentReturns == {k \in 1..Len(returned) : returned[k].ok}

NoneReturns == {k \in 1..Len(returned) : ~returned[k].ok}

BatchDirectoryDone == pc = "batch_done" /\ driver = "process_batch_directory"

\* C25: at the end of process_batch_directory successful + failed is the
\* number of eligible files, successful is the number of files whose
\* extraction returned a document, and a file whose extraction failed is
\* counted as failed.
C25_CountsMatchOutcomes ==
    BatchDirectoryDone =>
        /\ successful + failed = Len(excel_files)
        /\ successful = Cardinality(DocumentReturns)
        /\ failed = Cardinality(NoneReturns)

\* a directory with a workbook whose extraction returned None: every file
\* was counted as successful and none as failed
C25_Witness ==
    /\ BatchDirectoryDone
    /\ NoneReturns # {}
    /\ DocumentReturns # {}
    /\ successful = Len(excel_files)
    /\ failed = 0

=============================================================================
